---- MODULE Spec2Model ----
(***************************************************************************)
(* A model of the DHash peer (Chord routing + fragment replication) and of *)
(* the ring arithmetic of Key.                                             *)
(*                                                                         *)
(* Scale.  The source works on a ring of 16^32 keys held in 256-bit        *)
(* unsigned integers.  The model keeps the two facts that matter, the ring *)
(* of 16^HexDigits keys and an integer type as wide as the square of the   *)
(* ring, for a small HexDigits.                                            *)
(***************************************************************************)
EXTENDS Integers, Sequences, FiniteSets, TLC

\* Number of hexadecimal digits of a ring identifier (32 in the source).
HexDigits == 2

\* key.cpp: mp::pow(mp::cpp_int(16), 32), the number of keys in the ring.
keys_in_ring == 16 ^ HexDigits

\* Modulus of boost::multiprecision::uint256_t: 2^256 = (16^32)^2.
UintMod == keys_in_ring * keys_in_ring

\* The values a Key can hold.
KeyValues == 0 .. (UintMod - 1)

(***************************************************************************)
(* Key (key.cpp)                                                           *)
(***************************************************************************)

\* InBetween whose wrapped branch tests the arc from upper_bound to
\* lower_bound and forgets to negate the test.
InBetweenUnnegated(value_, lower_bound, upper_bound, inclusive) ==
    IF lower_bound = upper_bound
    THEN value_ = upper_bound
    ELSE LET mod_lower_bound == lower_bound % keys_in_ring
             mod_upper_bound == upper_bound % keys_in_ring
             mod_value       == value_ % keys_in_ring
         IN  IF lower_bound < upper_bound
             THEN IF inclusive
                  THEN mod_lower_bound <= mod_value /\ mod_value <= upper_bound
                  ELSE mod_lower_bound < mod_value /\ mod_value < upper_bound
             ELSE IF inclusive
                  THEN mod_upper_bound < mod_value /\ mod_value < mod_lower_bound
                  ELSE mod_upper_bound <= mod_value /\ mod_value <= mod_lower_bound

\* Key::InBetween(lower_bound, upper_bound, inclusive) on a key of value
\* value_.
InBetween(value_, lower_bound, upper_bound, inclusive) ==
    IF lower_bound = upper_bound
    THEN value_ = upper_bound
    ELSE LET mod_lower_bound == lower_bound % keys_in_ring
             mod_upper_bound == upper_bound % keys_in_ring
             mod_value       == value_ % keys_in_ring
         IN  IF lower_bound < upper_bound
             THEN IF inclusive
                  THEN mod_lower_bound <= mod_value /\ mod_value <= upper_bound
                  ELSE mod_lower_bound < mod_value /\ mod_value < upper_bound
             ELSE ~ (IF inclusive
                     THEN mod_upper_bound < mod_value /\ mod_value < mod_lower_bound
                     ELSE mod_upper_bound <= mod_value /\ mod_value <= mod_lower_bound)

\* operator + (const Key &key, int number): uint256_t addition, which wraps
\* at the width of the integer type.
KeyPlus(key, number) == (key + number) % UintMod

\* operator - (const Key &key, int number): uint256_t subtraction.
KeyMinus(key, number) == (key - number) % UintMod

(***************************************************************************)
(* Configuration of the ring under study.                                  *)
(***************************************************************************)

\* #define NUM_REPLICAS 14 (peer.h): length of successor lists and fragments
\* per block.
NUM_REPLICAS == 14

\* The literal 10 of Peer::Create and Peer::Read: fragments needed to decode.
MIN_FRAGMENTS == 10

\* Number of Peer objects of the scenario (the tests construct 28).
NumPeers == 16

Peers == 1 .. NumPeers

\* Leading byte of hash("127.0.0.1:<port>") of the peers of peer_test.cc in
\* the order the tests start them (ports 5055, 5001..5004, 5006..5018).  The
\* ids with the least leading bytes are kept distinct and non-zero, and no
\* id is the last key 16^k - 1 of a ring of k digits, which no 128-bit id of
\* the tests is.
HashByte ==
    <<137, 173, 99, 148, 226, 2, 142, 14, 1, 149, 55, 9, 72, 232, 66, 75,
      30, 194>>

\* Peer::Peer: id_ = Key(ip_addr + ":" + port, false), the hash of the address.
PeerId(p) == HashByte[p] * (keys_in_ring \div 256)

\* std::optional: <<>> is std::nullopt, <<x>> holds x.
NullOpt == <<>>
Some(x) == <<x>>
HasValue(o) == o # <<>>

\* PeerRepr(const Json::Value &) on a response without the descriptor fields
\* (a failed request): Key("", true) is 0, asInt() of null is 0, ip "".
\* addr 0 is no peer's address.
NullRepr == [id_ |-> 0, min_key_ |-> 0, max_key_ |-> 0, addr |-> 0]

\* The PeerRepr base of a Peer (*this sliced to PeerRepr).
SelfRepr(w, p) ==
    [id_ |-> PeerId(p), min_key_ |-> w[p].min_key_, max_key_ |-> PeerId(p),
     addr |-> p]

(***************************************************************************)
(* FingerTable (finger_table.cpp)                                          *)
(***************************************************************************)

\* Key::Size(): the number of hexadecimal digits of the value.
RECURSIVE HexLength(_)
HexLength(v) == IF v < 16 THEN 1 ELSE 1 + HexLength(v \div 16)

\* FingerTable::num_entries_(4 * 32): four bits per hexadecimal digit.
num_entries_ == 4 * HexDigits

\* FingerTable::keys_in_chord_ = 16 ^ starting_key.Size().
keys_in_chord_(starting_key) == 16 ^ HexLength(starting_key)

\* FingerTable::GetNthRange(n) of the table that starts at starting_key.
GetNthRange(starting_key, n) ==
    LET lower_bound == (starting_key + 2 ^ n) % keys_in_chord_(starting_key)
        upper_bound == (((starting_key + 2 ^ (n + 1))
                            % keys_in_chord_(starting_key)) - 1) % UintMod
    IN  <<lower_bound, upper_bound>>

\* The first of the indices found, 0 when there is none.
FirstOf(found) ==
    IF found = {} THEN 0 ELSE CHOOSE i \in found : \A j \in found : i <= j

\* FingerTable::Lookup(key): index into table_ of the first finger whose
\* range holds key (0: throws "Key not found").
Lookup(table_, key) ==
    FirstOf({i \in 1 .. Len(table_) :
                InBetween(key, table_[i].lower_bound_, table_[i].upper_bound_,
                          TRUE)})

\* FingerTable::AdjustFingers(new_peer).
AdjustFingers(table_, new_peer) ==
    [i \in 1 .. Len(table_) |->
        IF InBetween(table_[i].lower_bound_, new_peer.min_key_,
                     new_peer.max_key_, TRUE)
        THEN [table_[i] EXCEPT !.successor_ = new_peer]
        ELSE table_[i]]

(***************************************************************************)
(* PeerList (peer_repr.cpp)                                                *)
(***************************************************************************)

\* Position of the first entry it with new_peer.id_ clockwise between the
\* entry before it and it; 0 when there is none; -1 when an entry with the
\* id of new_peer is met first (Insert returns false).
RECURSIVE InsertPosition(_, _, _, _)
InsertPosition(peers_, new_peer, previous_key, i) ==
    IF i > Len(peers_) THEN 0
    ELSE IF new_peer.id_ = peers_[i].id_ THEN -1
    ELSE IF InBetween(new_peer.id_, previous_key, peers_[i].id_, TRUE) THEN i
    ELSE InsertPosition(peers_, new_peer, peers_[i].id_, i + 1)

\* PeerList::Insert(new_peer) on a list of at most max_entries_ peers: the
\* list after the call.
PeerListInsert(peers_, new_peer, max_entries_) ==
    IF peers_ = <<>> THEN <<new_peer>>
    ELSE LET pos == InsertPosition(peers_, new_peer,
                                   peers_[Len(peers_)].id_, 1)
         IN  IF pos = -1 THEN peers_
             ELSE IF pos > 0
                  THEN LET inserted == SubSeq(peers_, 1, pos - 1)
                                       \o <<new_peer>>
                                       \o SubSeq(peers_, pos, Len(peers_))
                       IN  IF Len(inserted) > max_entries_
                           THEN SubSeq(inserted, 1, Len(inserted) - 1)
                           ELSE inserted
                  ELSE IF Len(peers_) < max_entries_
                       THEN Append(peers_, new_peer)
                       ELSE peers_

(***************************************************************************)
(* Peer (peer.cpp): requests, handlers and lookups.                        *)
(*                                                                         *)
(* A world w maps each peer to its fields.  An operation is an operator    *)
(* from a world to [w, ok, val]: the world after it, whether it returned   *)
(* (ok) or threw, and its value.  busy is the set of peers whose server    *)
(* thread is inside a handler of the current chain of requests.  The part  *)
(* of an operation that follows a call is an operator on the result of the *)
(* call.  A loop of the source is a Step operator, its body run on the     *)
(* record st of the world and the locals of the loop, and a From operator  *)
(* that runs Step from iteration i while the loop goes on.                 *)
(***************************************************************************)

Ret(w, val) == [w |-> w, ok |-> TRUE, val |-> val]
Throw(w) == [w |-> w, ok |-> FALSE, val |-> NullRepr]

\* A step whose behaviour the language leaves undefined (reading an empty
\* std::optional through ->, dereferencing end()): recorded on the peer.
Undefined(w, p) ==
    [w |-> [w EXCEPT ![p].undefined_ = TRUE], ok |-> FALSE, val |-> NullRepr]

\* Session::DoWrite: the response to a request whose handler returned val,
\* and to one whose handler threw.
Success(w, val) ==
    [w |-> w, ok |-> TRUE, val |-> [SUCCESS |-> TRUE, val |-> val]]
Failure(w) ==
    [w |-> w, ok |-> TRUE, val |-> [SUCCESS |-> FALSE, val |-> NullRepr]]

\* The response to a request whose handler ended as h.
Respond(h) == IF h.ok THEN Success(h.w, h.val) ELSE Failure(h.w)

\* PeerRepr(const Json::Value &) of a response.
PeerReprOf(resp) == IF resp.SUCCESS THEN resp.val ELSE NullRepr

\* PeerRepr(json_peer) of a request that returned json_peer or threw.
ParsePeer(json_peer) ==
    IF json_peer.ok THEN Ret(json_peer.w, PeerReprOf(json_peer.val))
    ELSE Throw(json_peer.w)

\* resp["SUCCESS"].asBool() of a request that returned resp or threw.
AsBool(resp) ==
    IF resp.ok THEN Ret(resp.w, resp.val.SUCCESS) ELSE Throw(resp.w)

\* Client::MakeRequest reaches a server that is running, accepting and not
\* inside a handler; otherwise the request fails and the call throws.
Reachable(w, addr, busy) ==
    addr \in Peers /\ w[addr].listening /\ addr \notin busy

\* Peer::ValidateRequest(request).
ValidateRequest(w, q, request) ==
    IF request.RECIPIENT_ID # PeerId(q) THEN w
    ELSE [w EXCEPT ![q].current_client_id_ = Some(request.SENDER_ID)]

\* current_client_id_.reset() on q.
ResetClient(w, q) == [w EXCEPT ![q].current_client_id_ = NullOpt]

\* FingerTable::AddFinger / EditNthFinger on the table of p.
AddFinger(w, p, finger) ==
    [w EXCEPT ![p].finger_table_ = Append(@, finger)]
EditNthFinger(w, p, n, succ) ==
    [w EXCEPT ![p].finger_table_[n + 1].successor_ = succ]

RECURSIVE ClientMakeRequest(_, _, _, _)

\* The request Peer::MakeRequest(request, peer) of p passes to the client.
Stamped(p, request, peer) ==
    [SENDER_ID |-> PeerId(p), RECIPIENT_ID |-> peer.id_] @@ request

\* Peer::MakeRequest(request, peer) called by p.
MakeRequest(w, p, request, peer, busy) ==
    ClientMakeRequest(w, peer.addr, Stamped(p, request, peer), busy)

\* The peer Peer::ForwardRequest(request, key) called by p sends the request
\* to.  It is no peer (NullRepr, which no request reaches) when Lookup
\* throws; undefined tells that the code reads an empty predecessor_ or
\* successors_ on the way.
ForwardTarget(w, p, key) ==
    LET n == Lookup(w[p].finger_table_, key)
        key_succ == w[p].finger_table_[n].successor_
        client == w[p].current_client_id_
        key_succ_is_busy == HasValue(client) /\ key_succ.id_ = client[1]
        key_succ_is_us == key_succ.id_ = PeerId(p)
    IN  IF n = 0 THEN [peer |-> NullRepr, undefined |-> FALSE]
        ELSE IF ~ (key_succ_is_busy \/ key_succ_is_us)
             THEN [peer |-> key_succ, undefined |-> FALSE]
        ELSE IF ~ HasValue(w[p].predecessor_)
             THEN [peer |-> NullRepr, undefined |-> TRUE]
        ELSE IF ~ (HasValue(client) /\ client[1] = w[p].predecessor_[1].id_)
             THEN [peer |-> w[p].predecessor_[1], undefined |-> FALSE]
        ELSE IF w[p].successors_ = <<>>
             THEN [peer |-> NullRepr, undefined |-> TRUE]
        ELSE [peer |-> w[p].successors_[1], undefined |-> FALSE]

\* Peer::ForwardRequest(request, key) called by p; val is the response.
\* MakeRequest(request, target) is written out.
ForwardRequest(w, p, request, key, busy) ==
    ClientMakeRequest(IF ForwardTarget(w, p, key).undefined
                      THEN Undefined(w, p).w ELSE w,
                      ForwardTarget(w, p, key).peer.addr,
                      Stamped(p, request, ForwardTarget(w, p, key).peer),
                      busy)

\* The request of Peer::GetSuccessor(key).
GetSuccReq(key) == [COMMAND |-> "GET_SUCC", KEY |-> key]

\* Peer::GetSuccessor on p returns succ or throws.  When GetSuccHandler
\* called it (serving), the handler resets current_client_id_ and returns
\* the peer, and a throw leaves the handler.
GetSuccessorReturn(w, p, succ, serving) ==
    IF serving THEN Success(ResetClient(w, p), succ) ELSE Ret(w, succ)
GetSuccessorThrow(w, serving) == IF serving THEN Failure(w) ELSE Throw(w)

\* return PeerRepr(json_peer) of Peer::GetSuccessor after the request of
\* its catch clause.
GetSuccessorRetried(json_peer, p, serving) ==
    IF json_peer.ok
    THEN GetSuccessorReturn(json_peer.w, p, PeerReprOf(json_peer.val), serving)
    ELSE GetSuccessorThrow(json_peer.w, serving)

\* Peer::GetSuccessor after ForwardRequest returned json_peer or threw: the
\* catch clause asks *predecessor_.
GetSuccessorCatch(json_peer, p, key, busy, serving) ==
    CASE json_peer.ok ->
             GetSuccessorReturn(json_peer.w, p, PeerReprOf(json_peer.val),
                                serving)
      [] ~ json_peer.ok /\ ~ HasValue(json_peer.w[p].predecessor_) ->
             GetSuccessorThrow(Undefined(json_peer.w, p).w, serving)
      [] OTHER ->
             GetSuccessorRetried(
                 ClientMakeRequest(
                     json_peer.w, json_peer.w[p].predecessor_[1].addr,
                     Stamped(p, GetSuccReq(key),
                             json_peer.w[p].predecessor_[1]),
                     busy),
                 p, serving)

\* Peer::GetSuccessor(key) called on p, by GetSuccHandler when serving.
GetSuccessorFor(w, p, key, busy, serving) ==
    IF InBetween(key, w[p].min_key_, PeerId(p), TRUE)
    THEN GetSuccessorReturn(w, p, SelfRepr(w, p), serving)
    ELSE GetSuccessorCatch(ForwardRequest(w, p, GetSuccReq(key), key, busy),
                           p, key, busy, serving)

\* A GetSuccessor that answers with the peer it is called on and forwards
\* nothing.
GetSuccessorUnforwarded(w, p, key, busy) == Ret(w, SelfRepr(w, p))

\* Peer::GetSuccessor(key) called on p.
GetSuccessor(w, p, key, busy) == GetSuccessorFor(w, p, key, busy, FALSE)

\* Peer::GetSuccHandler(request) on q.
GetSuccHandler(w, q, request, busy) ==
    GetSuccessorFor(ValidateRequest(w, q, request), q, request.KEY, busy, TRUE)

\* Peer::StoredLocally(key).
StoredLocally(w, p, key) == InBetween(key, w[p].min_key_, PeerId(p), TRUE)

\* Peer::GetPredecessor(key) called on p.
GetPredecessor(w, p, key, busy) ==
    IF ~ HasValue(w[p].predecessor_) THEN Ret(w, SelfRepr(w, p))
    ELSE IF StoredLocally(w, p, key) THEN Ret(w, w[p].predecessor_[1])
    ELSE ParsePeer(ForwardRequest(w, p,
                                  [COMMAND |-> "GET_PRED", KEY |-> key],
                                  key, busy))

\* A handler of q that resets current_client_id_ before it returns the
\* value of g, and the response to it.
RespondAndReset(g, q) ==
    IF g.ok THEN Success(ResetClient(g.w, q), g.val) ELSE Failure(g.w)

\* Peer::GetPredHandler(request) on q.
GetPredHandler(w, q, request, busy) ==
    RespondAndReset(GetPredecessor(ValidateRequest(w, q, request), q,
                                   request.KEY, busy), q)

\* A JoinHandler that records the id of the peer it serves, as
\* ValidateRequest does, and never resets it.
JoinHandlerRecording(w, q, request, busy) ==
    Respond(GetPredecessor(
                [w EXCEPT ![q].current_client_id_ = Some(request.NEW_PEER.id_)],
                q, request.NEW_PEER.id_, busy))

\* Peer::JoinHandler(request) on q: val is the PREDECESSOR of the response.
JoinHandler(w, q, request, busy) ==
    Respond(GetPredecessor(w, q, request.NEW_PEER.id_, busy))

\* push_back(ith_succ), the test of break and the assignment to
\* previous_peer_id in the loops of Peer::GetNSuccessors and
\* Peer::GetNPredecessors, at iteration i.
PushBack(st, ith_succ, key, i) ==
    IF ~ ith_succ.ok THEN [st EXCEPT !.w = ith_succ.w, !.ok = FALSE]
    ELSE [w |-> ith_succ.w, ok |-> TRUE,
          val |-> Append(st.val, ith_succ.val),
          previous_peer_id |-> IF st.previous_peer_id = key /\ i # 0
                               THEN st.previous_peer_id
                               ELSE ith_succ.val.id_,
          break |-> st.previous_peer_id = key /\ i # 0]

\* The locals of the two loops before the first iteration.
EmptyList(w, key) ==
    [w |-> w, ok |-> TRUE, val |-> <<>>, previous_peer_id |-> key,
     break |-> FALSE]

\* The body of the loop of Peer::GetNSuccessors(key, n) called on p, at
\* iteration i.
GetNSuccessorsStep(st, p, key, i, busy) ==
    PushBack(st,
             GetSuccessor(st.w, p, KeyPlus(st.previous_peer_id, 1), busy),
             key, i)

RECURSIVE GetNSuccessorsFrom(_, _, _, _, _, _)
GetNSuccessorsFrom(st, p, key, n, i, busy) ==
    IF ~ st.ok \/ st.break \/ i >= n THEN st
    ELSE GetNSuccessorsFrom(GetNSuccessorsStep(st, p, key, i, busy),
                            p, key, n, i + 1, busy)

\* Peer::GetNSuccessors(key, n) called on p: val is successors_list.
GetNSuccessors(w, p, key, n, busy) ==
    GetNSuccessorsFrom(EmptyList(w, key), p, key, n, 0, busy)

\* The body of the loop of Peer::GetNPredecessors(key, n) called on p, at
\* iteration i.
GetNPredecessorsStep(st, p, key, i, busy) ==
    PushBack(st,
             GetPredecessor(st.w, p, KeyMinus(st.previous_peer_id, 1), busy),
             key, i)

RECURSIVE GetNPredecessorsFrom(_, _, _, _, _, _)
GetNPredecessorsFrom(st, p, key, n, i, busy) ==
    IF ~ st.ok \/ st.break \/ i >= n THEN st
    ELSE GetNPredecessorsFrom(GetNPredecessorsStep(st, p, key, i, busy),
                              p, key, n, i + 1, busy)

\* Peer::GetNPredecessors(key, n) called on p: val is pred_list.
GetNPredecessors(w, p, key, n, busy) ==
    GetNPredecessorsFrom(EmptyList(w, key), p, key, n, 0, busy)

\* finger_table_->AddFinger(Finger { first, second, PeerRepr(resp) }) on p
\* after MakeRequest returned resp or threw.
AddFingerFrom(resp, p, entry_range) ==
    IF resp.ok
    THEN Ret(AddFinger(resp.w, p, [lower_bound_ |-> entry_range[1],
                                   upper_bound_ |-> entry_range[2],
                                   successor_ |-> PeerReprOf(resp.val)]),
             TRUE)
    ELSE Throw(resp.w)

\* finger_table_->EditNthFinger(i, succ) on p after the call that gave succ
\* returned or threw.
EditNthFingerFrom(succ, p, i) ==
    IF ~ succ.ok \/ Len(succ.w[p].finger_table_) <= i THEN Throw(succ.w)
    ELSE Ret(EditNthFinger(succ.w, p, i, succ.val), TRUE)

\* try { resp = MakeRequest(succ_req, peer_to_query); }
\* catch(...) { resp = GetSuccessor(entry_range.first); } on p.
QueriedOrGetSuccessor(resp, p, key, busy) ==
    IF resp.ok THEN Ret(resp.w, PeerReprOf(resp.val))
    ELSE GetSuccessor(resp.w, p, key, busy)

\* The body of the loop of Peer::PopulateFingerTable(initialize) called on
\* p, at entry i of the world w.
PopulateFingerTableStep(w, p, initialize, i, busy) ==
    LET entry_range == GetNthRange(PeerId(p), i)
        succ_req == GetSuccReq(entry_range[1])
        table_ == w[p].finger_table_
    IN  IF initialize
        THEN IF InBetween(entry_range[1], w[p].min_key_, PeerId(p), TRUE)
             THEN Ret(AddFinger(w, p, [lower_bound_ |-> entry_range[1],
                                       upper_bound_ |-> entry_range[2],
                                       successor_ |-> SelfRepr(w, p)]),
                      TRUE)
             ELSE IF i = 0 /\ ~ HasValue(w[p].predecessor_)
                  THEN Undefined(w, p)
             ELSE IF i # 0 /\ Len(table_) < i THEN Throw(w)
             ELSE AddFingerFrom(
                      MakeRequest(w, p, succ_req,
                                  IF i = 0 THEN w[p].predecessor_[1]
                                  ELSE table_[i].successor_,
                                  busy),
                      p, entry_range)
        ELSE IF i = 0
             THEN EditNthFingerFrom(GetSuccessor(w, p, entry_range[1], busy),
                                    p, 0)
             ELSE IF Len(table_) < i THEN Throw(w)
             ELSE EditNthFingerFrom(
                      QueriedOrGetSuccessor(
                          MakeRequest(w, p, succ_req, table_[i].successor_,
                                      busy),
                          p, entry_range[1], busy),
                      p, i)

RECURSIVE PopulateFingerTableFrom(_, _, _, _, _)
PopulateFingerTableFrom(st, p, initialize, i, busy) ==
    IF ~ st.ok \/ i >= num_entries_ THEN st
    ELSE PopulateFingerTableFrom(
             PopulateFingerTableStep(st.w, p, initialize, i, busy),
             p, initialize, i + 1, busy)

\* Peer::PopulateFingerTable(initialize) called on p.
PopulateFingerTable(w, p, initialize, busy) ==
    PopulateFingerTableFrom(Ret(w, TRUE), p, initialize, 0, busy)

\* Peer::Notify(new_peer, peer_to_notify): val is SUCCESS of the response.
Notify(w, new_peer, peer_to_notify, busy) ==
    AsBool(ClientMakeRequest(w, peer_to_notify.addr,
                             [COMMAND |-> "NOTIFY",
                              RECIP_ID |-> peer_to_notify.id_,
                              NEW_PEER |-> new_peer], busy))

\* The end of Peer::NotifyHandler on q for a peer that is not the
\* predecessor, after PopulateFingerTable, if called, returned or threw.
NotifyHandlerInsert(f, q, new_peer) ==
    IF f.ok
    THEN Success([f.w EXCEPT
                     ![q].finger_table_ = AdjustFingers(@, new_peer),
                     ![q].successors_ =
                         PeerListInsert(@, new_peer, NUM_REPLICAS)],
                 TRUE)
    ELSE Failure(f.w)

\* Peer::NotifyHandler(request) on q.
NotifyHandler(w, q, request, busy) ==
    IF \/ ~ HasValue(w[q].predecessor_)
       \/ InBetween(request.NEW_PEER.id_, w[q].predecessor_[1].id_, PeerId(q),
                    FALSE)
    THEN Success([w EXCEPT
                     ![q].finger_table_ = AdjustFingers(@, request.NEW_PEER),
                     ![q].predecessor_ = Some(request.NEW_PEER),
                     ![q].min_key_ = KeyPlus(request.NEW_PEER.id_, 1)],
                 TRUE)
    ELSE NotifyHandlerInsert(IF w[q].finger_table_ = <<>>
                             THEN PopulateFingerTable(w, q, TRUE, busy)
                             ELSE Ret(w, TRUE),
                             q, request.NEW_PEER)

(***************************************************************************)
(* Database (database.cpp) and DataBlock (data_block.cpp)                  *)
(*                                                                         *)
(* data_ is the std::map of a Database, index_ the set of keys its         *)
(* CSMerkleNode holds.  The row of a fragment is named by the value it was *)
(* encoded from and its index.                                             *)
(***************************************************************************)

\* FragsFromMatrix(ida_.Encode(original_)): fragment i of the block of value.
FragmentOf(value, i) == [index_ |-> i, fragment_ |-> <<value, i>>]

\* DataBlock(const std::vector<DataFragment> &).Decode(): IDA::Decode reads
\* the first m_ = 10 rows and their indices; rows that are not ten rows of
\* one block decode to no value that was stored.
Garbage == "garbage"
DecodeFragments(fragments) ==
    LET v == fragments[1].fragment_[1]
    IN  IF \A k \in 1 .. MIN_FRAGMENTS :
              fragments[k].fragment_ = <<v, fragments[k].index_>>
        THEN v ELSE Garbage

\* Database::Contains(key).
Contains(w, p, key) == key \in w[p].index_

\* Database::Insert without the test for a stored key: the fragment takes
\* the place of the stored one.
DatabaseInsertOverwrites(w, p, key, frag) ==
    Ret([w EXCEPT ![p].index_ = @ \cup {key},
                  ![p].data_ = (key :> frag) @@ @], TRUE)

\* Database::Insert({key, frag}) on the database of p.
DatabaseInsert(w, p, key, frag) ==
    IF key \in DOMAIN w[p].data_ THEN Throw(w)
    ELSE Ret([w EXCEPT ![p].index_ = @ \cup {key},
                       ![p].data_ = (key :> frag) @@ @], TRUE)

\* Database::Lookup(key).
DatabaseLookup(w, p, key) ==
    IF key \in w[p].index_ /\ key \in DOMAIN w[p].data_
    THEN Ret(w, w[p].data_[key]) ELSE Throw(w)

\* Database::Update({key, frag}) on the database of p.
DatabaseUpdate(w, p, key, frag) ==
    IF key \notin DOMAIN w[p].data_ THEN Throw(w)
    ELSE Ret([w EXCEPT ![p].data_[key] = frag], TRUE)

\* Database::Delete(key).
DatabaseDelete(w, p, key) ==
    IF key \in w[p].index_
    THEN Ret([w EXCEPT ![p].data_ =
                 [k \in (DOMAIN @) \ {key} |-> @[k]]], TRUE)
    ELSE Throw(w)

\* Database::ReadRange(lower_bound, upper_bound): the keys of the result.
ReadRange(w, p, lower_bound, upper_bound) ==
    {k \in DOMAIN w[p].data_ : InBetween(k, lower_bound, upper_bound, TRUE)}

\* Peer::CreateFragment(recipient, key, fragment) called on p.
CreateFragment(w, p, recipient, key, fragment, busy) ==
    IF \/ (HasValue(w[p].current_client_id_)
           /\ recipient.id_ = w[p].current_client_id_[1])
       \/ recipient.id_ = PeerId(p)
    THEN Ret(w, FALSE)
    ELSE AsBool(MakeRequest(w, p, [COMMAND |-> "CREATE_FRAG", KEY |-> key,
                                   FRAGMENT |-> fragment], recipient, busy))

\* CreateFragmentHandler that answers success without the insert.
CreateFragmentHandlerNoInsert(w, q, request) ==
    IF Contains(ValidateRequest(w, q, request), q, request.KEY)
    THEN Failure(ValidateRequest(w, q, request))
    ELSE Success(ResetClient(ValidateRequest(w, q, request), q), TRUE)

\* Peer::CreateFragmentHandler(request) on q.
CreateFragmentHandler(w, q, request) ==
    IF Contains(ValidateRequest(w, q, request), q, request.KEY)
    THEN Failure(ValidateRequest(w, q, request))
    ELSE RespondAndReset(DatabaseInsert(ValidateRequest(w, q, request), q,
                                        request.KEY, request.FRAGMENT), q)

\* DataFragment(read_frag_resp["FRAGMENT"]) of Peer::ReadFragment after the
\* request returned read_frag_resp or threw.
FragmentFrom(read_frag_resp) ==
    IF read_frag_resp.ok /\ read_frag_resp.val.SUCCESS
    THEN Ret(read_frag_resp.w, read_frag_resp.val.val)
    ELSE Throw(read_frag_resp.w)

\* Peer::ReadFragment(recipient, key) called on p.
ReadFragment(w, p, recipient, key, busy) ==
    FragmentFrom(MakeRequest(w, p, [COMMAND |-> "READ_FRAG", KEY |-> key],
                             recipient, busy))

\* Peer::ReadFragmentHandler(request) on q.
ReadFragmentHandler(w, q, request) ==
    IF Contains(ValidateRequest(w, q, request), q, request.KEY)
    THEN RespondAndReset(DatabaseLookup(ValidateRequest(w, q, request), q,
                                        request.KEY), q)
    ELSE Failure(ResetClient(ValidateRequest(w, q, request), q))

\* InsertFragment without the try block around ReadFragment: a successor
\* that gives no fragment ends the Read.
InsertFragmentUncaught(st, frag, local) ==
    IF frag.ok
    THEN [w |-> frag.w, ok |-> TRUE,
          val |-> IF frag.val.index_ \in DOMAIN st.val THEN st.val
                  ELSE (frag.val.index_ :> frag.val) @@ st.val]
    ELSE Throw(frag.w)

\* fragments.insert(frag) in the loop of Peer::Read after the lookup or the
\* request that gave frag returned or threw; a throw of the request is
\* caught.  val is fragments, the std::set<DataFragment>, ordered and keyed
\* by index_.
InsertFragment(st, frag, local) ==
    IF frag.ok
    THEN [w |-> frag.w, ok |-> TRUE,
          val |-> IF frag.val.index_ \in DOMAIN st.val THEN st.val
                  ELSE (frag.val.index_ :> frag.val) @@ st.val]
    ELSE IF local THEN Throw(frag.w)
    ELSE [st EXCEPT !.w = frag.w]

\* The body of the loop of Peer::Read(key) called on p, for the peer succ of
\* succ_list.
ReadStep(st, p, key, succ, busy) ==
    IF succ.id_ = PeerId(p) /\ Contains(st.w, p, key)
    THEN InsertFragment(st, DatabaseLookup(st.w, p, key), TRUE)
    ELSE InsertFragment(st, ReadFragment(st.w, p, succ, key, busy), FALSE)

RECURSIVE ReadFrom(_, _, _, _, _, _)
ReadFrom(st, p, key, succ_list, i, busy) ==
    IF \/ ~ st.ok
       \/ i > Len(succ_list)
       \/ Cardinality(DOMAIN st.val) = MIN_FRAGMENTS
    THEN st
    ELSE ReadFrom(ReadStep(st, p, key, succ_list[i], busy),
                  p, key, succ_list, i + 1, busy)

\* The fragments of a std::set in iteration order.
RECURSIVE InIndexOrder(_)
InIndexOrder(fragments) ==
    IF DOMAIN fragments = {} THEN <<>>
    ELSE LET least == CHOOSE i \in DOMAIN fragments :
                          \A j \in DOMAIN fragments : i <= j
         IN  <<fragments[least]>>
             \o InIndexOrder([j \in (DOMAIN fragments) \ {least} |->
                                 fragments[j]])

\* The loop of Peer::Read(key) on p after GetNSuccessors returned succ_list
\* or threw.
ReadFragments(succ_list, p, key, busy) ==
    IF succ_list.ok
    THEN ReadFrom(Ret(succ_list.w, <<>>), p, key, succ_list.val, 1, busy)
    ELSE Throw(succ_list.w)

\* ReadBlock that asks for all NUM_REPLICAS fragments instead of 10.
ReadBlockOfAll(fragments) ==
    IF ~ fragments.ok THEN Throw(fragments.w)
    ELSE IF Cardinality(DOMAIN fragments.val) < NUM_REPLICAS
         THEN Throw(fragments.w)
    ELSE Ret(fragments.w, DecodeFragments(InIndexOrder(fragments.val)))

\* The end of Peer::Read: the block of the fragments read, or the throw for
\* less than 10 distinct fragments; val is Decode() of the block.
ReadBlock(fragments) ==
    IF ~ fragments.ok THEN Throw(fragments.w)
    ELSE IF Cardinality(DOMAIN fragments.val) < MIN_FRAGMENTS
         THEN Throw(fragments.w)
    ELSE Ret(fragments.w, DecodeFragments(InIndexOrder(fragments.val)))

\* Peer::Read(key) called on p.
Read(w, p, key, busy) ==
    ReadBlock(ReadFragments(GetNSuccessors(w, p, key, NUM_REPLICAS, busy),
                            p, key, busy))

\* database_.Insert({ key, random_els.at(0) }) of Peer::RetrieveMissing on q
\* after Read returned missing_block or threw; sample_ is the index
\* std::sample draws.
InsertSample(missing_block, q, key) ==
    IF missing_block.ok
    THEN DatabaseInsert(missing_block.w, q, key,
                        FragmentOf(missing_block.val,
                                   missing_block.w[q].sample_))
    ELSE Throw(missing_block.w)

\* Peer::RetrieveMissing(key) on q.
RetrieveMissing(w, q, key, busy) ==
    InsertSample(Read(w, q, key, busy), q, key)

\* The second loop of Peer::SynchronizeHandler over keys_to_synchronize.
RECURSIVE RetrieveAllMissing(_, _, _, _, _)
RetrieveAllMissing(st, q, keys_to_synchronize, i, busy) ==
    IF ~ st.ok \/ i > Len(keys_to_synchronize) THEN st
    ELSE RetrieveAllMissing(
             IF Contains(st.w, q, keys_to_synchronize[i]) THEN st
             ELSE RetrieveMissing(st.w, q, keys_to_synchronize[i], busy),
             q, keys_to_synchronize, i + 1, busy)

\* Peer::SynchronizeHandler(request) on q: the keys are read from
\* resp["KEYS"], a member the fresh response does not have.
SynchronizeHandler(w, q, request, busy) ==
    LET resp == [SUCCESS |-> TRUE]
        keys_to_synchronize ==
            IF "KEYS" \in DOMAIN resp THEN resp["KEYS"] ELSE <<>>
    IN  Respond(RetrieveAllMissing(Ret(w, TRUE), q, keys_to_synchronize, 1,
                                   busy))

\* Peer::LeaveHandler(request) on q.  A member the request lacks reads as
\* null: PeerRepr(null) is NullRepr and Key("", true) is 0.
LeaveHandler(w, q, request) ==
    LET w1 == ValidateRequest(w, q, request)
        client == w1[q].current_client_id_
        new_pred == IF "NEW_PRED" \in DOMAIN request THEN request.NEW_PRED
                    ELSE NullRepr
        new_min == IF "NEW_MIN" \in DOMAIN request THEN request.NEW_MIN ELSE 0
        new_succ == IF "NEW_SUCC" \in DOMAIN request THEN request.NEW_SUCC
                    ELSE NullRepr
        w2 == IF HasValue(client) /\ client[1] = w1[q].predecessor_[1].id_
              THEN [w1 EXCEPT ![q].predecessor_ = Some(new_pred),
                              ![q].min_key_ = new_min]
              ELSE w1
        w3 == IF HasValue(client) /\ client[1] = w2[q].successors_[1].id_
              THEN [w2 EXCEPT ![q].finger_table_ = AdjustFingers(@, new_succ)]
              ELSE w2
    IN  IF ~ HasValue(w1[q].predecessor_) THEN Failure(Undefined(w1, q).w)
        ELSE IF w2[q].successors_ = <<>> THEN Failure(Undefined(w2, q).w)
        ELSE Success(ResetClient(w3, q), TRUE)

\* Peer::RunGeneralMaintenanceHandler(request) on q: a detached thread that
\* will run RunGeneralMaintenance.
RunGeneralMaintenanceHandler(w, q, request) ==
    Success([w EXCEPT ![q].maintenance_thread_ = TRUE], TRUE)

\* The request reaches the server at addr and names command.
Served(w, addr, request, busy, command) ==
    Reachable(w, addr, busy) /\ request.COMMAND = command

\* Client::MakeRequest(ip, port, request): the server at addr runs the
\* handler Session::ProcessRequest finds for the command and answers; the
\* call throws when the request fails.
ClientMakeRequest(w, addr, request, busy) ==
    CASE ~ Reachable(w, addr, busy) -> Throw(w)
      [] Served(w, addr, request, busy, "JOIN") ->
             JoinHandler(w, addr, request, busy \cup {addr})
      [] Served(w, addr, request, busy, "GET_SUCC") ->
             GetSuccHandler(w, addr, request, busy \cup {addr})
      [] Served(w, addr, request, busy, "GET_PRED") ->
             GetPredHandler(w, addr, request, busy \cup {addr})
      [] Served(w, addr, request, busy, "CREATE_FRAG") ->
             CreateFragmentHandler(w, addr, request)
      [] Served(w, addr, request, busy, "READ_FRAG") ->
             ReadFragmentHandler(w, addr, request)
      [] Served(w, addr, request, busy, "LEAVE") ->
             LeaveHandler(w, addr, request)
      [] Served(w, addr, request, busy, "NOTIFY") ->
             NotifyHandler(w, addr, request, busy \cup {addr})
      [] Served(w, addr, request, busy, "SYNCHRONIZE") ->
             SynchronizeHandler(w, addr, request, busy \cup {addr})
      [] Served(w, addr, request, busy, "MAINTENANCE") ->
             RunGeneralMaintenanceHandler(w, addr, request)
      [] OTHER -> Failure(w)

(***************************************************************************)
(* Peer (peer.cpp): the operations a caller or the maintenance thread of p *)
(* runs.                                                                   *)
(***************************************************************************)

\* Peer::StartChord() on p.
StartChord(w, p) ==
    Ret([w EXCEPT ![p].min_key_ = KeyPlus(PeerId(p), 1),
                  ![p].listening = TRUE,
                  ![p].maintenance_thread_ = TRUE], TRUE)

\* The loop of Peer::Join that notifies the predecessors, from position i of
\* pred_list.
RECURSIVE NotifyAll(_, _, _, _)
NotifyAll(st, p, pred_list, i) ==
    IF ~ st.ok \/ i > Len(pred_list) THEN st
    ELSE NotifyAll(Notify(st.w, SelfRepr(st.w, p), pred_list[i], {}),
                   p, pred_list, i + 1)

\* Peer::Join on p after the gateway answered join_resp or the request
\* threw: predecessor_, min_key_ and PopulateFingerTable(true).
JoinPopulate(join_resp, p) ==
    IF join_resp.ok
    THEN PopulateFingerTable(
             [join_resp.w EXCEPT
                 ![p].predecessor_ = Some(PeerReprOf(join_resp.val)),
                 ![p].min_key_ = KeyPlus(PeerReprOf(join_resp.val).id_, 1)],
             p, TRUE, {})
    ELSE Throw(join_resp.w)

\* Peer::Join on p: GetNPredecessors(id_, NUM_REPLICAS).
JoinPredecessors(populated, p) ==
    IF populated.ok
    THEN GetNPredecessors(populated.w, p, PeerId(p), NUM_REPLICAS, {})
    ELSE Throw(populated.w)

\* Peer::Join on p: Notify(*this_peer, pred) for each pred of pred_list.
JoinNotify(pred_list, p) ==
    IF pred_list.ok
    THEN NotifyAll(Ret(pred_list.w, TRUE), p, pred_list.val, 1)
    ELSE Throw(pred_list.w)

\* GetNSuccessors(id_, NUM_REPLICAS) on p after what came before it
\* returned or threw.
ThenGetNSuccessors(done, p) ==
    IF done.ok THEN GetNSuccessors(done.w, p, PeerId(p), NUM_REPLICAS, {})
    ELSE Throw(done.w)

\* successors_ = PeerList(NUM_REPLICAS, succ_list) on p.
SetSuccessors(succ_list, p) ==
    IF succ_list.ok
    THEN Ret([succ_list.w EXCEPT ![p].successors_ = succ_list.val], TRUE)
    ELSE Throw(succ_list.w)

\* Peer::Join on p without the last Notify.
JoinWithoutNotifySuccessor(set, p) ==
    IF set.ok THEN Ret(set.w, TRUE) ELSE Throw(set.w)

\* Peer::Join on p: Notify(*this_peer, successors_.GetNthEntry(0)).
JoinNotifySuccessor(set, p) ==
    IF set.ok
    THEN Notify(set.w, SelfRepr(set.w, p), set.w[p].successors_[1], {})
    ELSE Throw(set.w)

\* Peer::Join(gateway_ip, port) on p, the gateway being the peer at gateway.
Join(w, p, gateway) ==
    JoinNotifySuccessor(
        SetSuccessors(
            ThenGetNSuccessors(
                JoinNotify(
                    JoinPredecessors(
                        JoinPopulate(
                            ClientMakeRequest(
                                [w EXCEPT ![p].listening = TRUE], gateway,
                                [COMMAND |-> "JOIN",
                                 NEW_PEER |->
                                     SelfRepr([w EXCEPT ![p].listening = TRUE],
                                              p)],
                                {}),
                            p),
                        p),
                    p),
                p),
            p),
        p)

\* Peer::Kill() on p.
Kill(w, p) == [w EXCEPT ![p].listening = FALSE]

\* Kill() of Peer::Leave on p after the second request returned or threw.
LeaveKill(resp, p) ==
    IF resp.ok THEN Ret(Kill(resp.w, p), TRUE) ELSE Throw(resp.w)

\* The second request of Peer::Leave on p after the first one returned or
\* threw.
LeaveNotifyPred(resp, p, notification_for_pred) ==
    IF resp.ok
    THEN LeaveKill(MakeRequest(resp.w, p, notification_for_pred,
                               resp.w[p].predecessor_[1], {}), p)
    ELSE Throw(resp.w)

\* Peer::Leave() on p.
Leave(w, p) ==
    IF ~ HasValue(w[p].predecessor_) \/ w[p].successors_ = <<>>
    THEN Undefined(w, p)
    ELSE LeaveNotifyPred(
             MakeRequest(w, p,
                         [COMMAND |-> "LEAVE",
                          NEW_PRED |-> w[p].predecessor_[1],
                          NEW_MIN |-> KeyPlus(w[p].min_key_, 1)],
                         w[p].successors_[1], {}),
             p,
             [COMMAND |-> "LEAVE",
              NEW_SUCC |-> [w[p].successors_[1] EXCEPT
                               !.min_key_ = w[p].min_key_]])

\* num_replicas after fragment i of Peer::Create was stored locally or
\* offered to its peer, the call having returned or thrown.
Counted(st, stored, local) ==
    IF stored.ok
    THEN Ret(stored.w, st.val + (IF local \/ stored.val THEN 1 ELSE 0))
    ELSE Throw(stored.w)

\* The body of the loop of Peer::Create called on p, for fragment i (counted
\* from 0, as in the source); val is num_replicas.
CreateStep(st, p, key, value, succ_list, i) ==
    IF i >= Len(succ_list) THEN Throw(st.w)
    ELSE IF succ_list[i + 1].id_ = PeerId(p)
         THEN Counted(st, DatabaseInsert(st.w, p, key, FragmentOf(value, i + 1)),
                      TRUE)
    ELSE Counted(st, CreateFragment(st.w, p, succ_list[i + 1], key,
                                    FragmentOf(value, i + 1), {}),
                 FALSE)

RECURSIVE CreateFrom(_, _, _, _, _, _)
CreateFrom(st, p, key, value, succ_list, i) ==
    IF ~ st.ok \/ i >= NUM_REPLICAS THEN st
    ELSE CreateFrom(CreateStep(st, p, key, value, succ_list, i),
                    p, key, value, succ_list, i + 1)

\* return num_replicas >= 10 of Peer::Create.
CreateReturn(num_replicas) ==
    IF num_replicas.ok
    THEN Ret(num_replicas.w, num_replicas.val >= MIN_FRAGMENTS)
    ELSE Throw(num_replicas.w)

\* Peer::Create on p after GetNSuccessors returned succ_list or threw.
CreateFragments(succ_list, p, key, value) ==
    IF ~ succ_list.ok THEN Throw(succ_list.w)
    ELSE IF Len(succ_list.val) < MIN_FRAGMENTS THEN Ret(succ_list.w, FALSE)
    ELSE CreateReturn(CreateFrom(Ret(succ_list.w, 0), p, key, value,
                                 succ_list.val, 0))

\* Peer::Create(key, value) on p.
Create(w, p, key, value) ==
    CreateFragments(GetNSuccessors(w, p, key, NUM_REPLICAS, {}), p, key, value)

\* Peer::Stabilize() on p.
Stabilize(w, p) ==
    SetSuccessors(ThenGetNSuccessors(PopulateFingerTable(w, p, FALSE, {}), p),
                  p)

\* The keys of a std::map in iteration order.
RECURSIVE InKeyOrder(_)
InKeyOrder(keys) ==
    IF keys = {} THEN <<>>
    ELSE LET least == CHOOSE k \in keys : \A j \in keys : k <= j
         IN  <<least>> \o InKeyOrder(keys \ {least})

\* Peer::Synchronize(succ, lower_bound, upper_bound) on p.
Synchronize(w, p, succ, lower_bound, upper_bound) ==
    MakeRequest(w, p,
                [COMMAND |-> "SYNCHRONIZE",
                 KEYS |-> InKeyOrder(ReadRange(w, p, lower_bound, upper_bound))],
                succ, {})

\* Peer::RunLocalMaintenance() on p, from successor i (counted from 0).
RECURSIVE RunLocalMaintenanceFrom(_, _, _)
RunLocalMaintenanceFrom(st, p, i) ==
    IF ~ st.ok \/ i >= Len(st.w[p].successors_) THEN st
    ELSE RunLocalMaintenanceFrom(
             Synchronize(st.w, p, st.w[p].successors_[i + 1],
                         st.w[p].min_key_, PeerId(p)),
             p, i + 1)

RunLocalMaintenance(w, p) == RunLocalMaintenanceFrom(Ret(w, TRUE), p, 0)

\* The fragment is deleted and the loop left after the first offer, accepted
\* or not.
DeleteOffered(accepted, p, misplaced_key) ==
    IF ~ accepted.ok THEN Throw(accepted.w)
    ELSE DatabaseDelete(accepted.w, p, misplaced_key)

\* database_.Delete(misplaced_key) and break of Peer::RunGlobalMaintenance
\* on p after CreateFragment returned accepted or threw (val TRUE: break).
DeleteAccepted(accepted, p, misplaced_key) ==
    IF ~ accepted.ok THEN Throw(accepted.w)
    ELSE IF accepted.val THEN DatabaseDelete(accepted.w, p, misplaced_key)
    ELSE Ret(accepted.w, FALSE)

\* The inner loop of Peer::RunGlobalMaintenance: offer the fragment of
\* misplaced_key to the successors from position i.
RECURSIVE OfferMisplaced(_, _, _, _, _, _)
OfferMisplaced(st, p, misplaced_key, misplaced_frag, succs, i) ==
    IF ~ st.ok \/ st.val \/ i > Len(succs) THEN st
    ELSE OfferMisplaced(
             DeleteAccepted(CreateFragment(st.w, p, succs[i], misplaced_key,
                                           misplaced_frag, {}),
                            p, misplaced_key),
             p, misplaced_key, misplaced_frag, succs, i + 1)

\* The loop of Peer::RunGlobalMaintenance over misplaced_keys, a copy of the
\* range taken from the database of world w0.
RECURSIVE MoveMisplaced(_, _, _, _, _, _)
MoveMisplaced(st, p, w0, misplaced_keys, succs, i) ==
    IF ~ st.ok \/ i > Len(misplaced_keys) THEN st
    ELSE MoveMisplaced(
             OfferMisplaced(Ret(st.w, FALSE), p, misplaced_keys[i],
                            w0[p].data_[misplaced_keys[i]], succs, 1),
             p, w0, misplaced_keys, succs, i + 1)

\* current_key = succs.at(0).id_ after the loop over misplaced_keys returned
\* or threw.
NextKey(moved, next_key) ==
    IF moved.ok THEN Ret(moved.w, next_key) ELSE Throw(moved.w)

\* The body of the do-while loop of Peer::RunGlobalMaintenance on p after
\* GetNSuccessors returned succs or threw; val is the next current_key.
MoveIfMisplaced(succs, p, current_key) ==
    IF ~ succs.ok THEN Throw(succs.w)
    ELSE IF \A i \in 1 .. Len(succs.val) : succs.val[i] # SelfRepr(succs.w, p)
         THEN NextKey(MoveMisplaced(Ret(succs.w, TRUE), p, succs.w,
                          InKeyOrder(ReadRange(succs.w, p, current_key,
                                               succs.val[1].id_)),
                          succs.val, 1),
                      succs.val[1].id_)
    ELSE Ret(succs.w, succs.val[1].id_)

\* The test of the do-while loop of Peer::RunGlobalMaintenance on p.  The
\* loop is a function of current_key and the world, so a walk that comes to
\* a key in a world it left that key in before repeats for ever (val FALSE).
Walked(st, next_key, p) ==
    IF ~ next_key.ok THEN [st EXCEPT !.w = next_key.w, !.ok = FALSE]
    ELSE [w |-> next_key.w, ok |-> TRUE,
          val |-> InBetween(next_key.val, next_key.w[p].min_key_, PeerId(p),
                            TRUE)
                  \/ <<next_key.val, next_key.w>> \notin st.visited,
          current_key |-> next_key.val,
          visited |-> st.visited \cup {<<next_key.val, next_key.w>>},
          done |-> InBetween(next_key.val, next_key.w[p].min_key_, PeerId(p),
                             TRUE)
                   \/ <<next_key.val, next_key.w>> \in st.visited]

\* The body of the do-while loop of Peer::RunGlobalMaintenance on p.
RunGlobalMaintenanceStep(st, p) ==
    Walked(st,
           MoveIfMisplaced(GetNSuccessors(st.w, p, st.current_key,
                                          NUM_REPLICAS, {}),
                           p, st.current_key),
           p)

RECURSIVE RunGlobalMaintenanceFrom(_, _)
RunGlobalMaintenanceFrom(st, p) ==
    IF ~ st.ok \/ st.done THEN st
    ELSE RunGlobalMaintenanceFrom(RunGlobalMaintenanceStep(st, p), p)

\* Peer::RunGlobalMaintenance() on p.
RunGlobalMaintenance(w, p) ==
    RunGlobalMaintenanceFrom(
        RunGlobalMaintenanceStep(
            [w |-> w, ok |-> TRUE, val |-> TRUE, current_key |-> PeerId(p),
             visited |-> {<<PeerId(p), w>>}, done |-> FALSE], p), p)

\* RunLocalMaintenance() of Peer::RunGeneralMaintenance on p after Stabilize
\* returned or threw.
ThenRunLocalMaintenance(stabilized, p) ==
    IF stabilized.ok THEN RunLocalMaintenance(stabilized.w, p)
    ELSE Throw(stabilized.w)

\* RunGlobalMaintenance() of Peer::RunGeneralMaintenance on p.
ThenRunGlobalMaintenance(synchronized, p) ==
    IF synchronized.ok THEN RunGlobalMaintenance(synchronized.w, p)
    ELSE Throw(synchronized.w)

\* The MAINTENANCE request of Peer::RunGeneralMaintenance returned or threw.
Sent(resp) == IF resp.ok THEN Ret(resp.w, TRUE) ELSE Throw(resp.w)

\* The end of Peer::RunGeneralMaintenance on p: the MAINTENANCE request to
\* successors_.GetNthEntry(0).  val is FALSE when RunGlobalMaintenance never
\* returns.
PassToken(walked, p) ==
    IF ~ walked.ok THEN Throw(walked.w)
    ELSE IF ~ walked.val THEN Ret(walked.w, FALSE)
    ELSE IF walked.w[p].successors_ = <<>> THEN Undefined(walked.w, p)
    ELSE Sent(MakeRequest(walked.w, p, [COMMAND |-> "MAINTENANCE"],
                          walked.w[p].successors_[1], {}))

\* Peer::RunGeneralMaintenance() on p, once successors_ is not empty.
RunGeneralMaintenance(w, p) ==
    PassToken(ThenRunGlobalMaintenance(
                  ThenRunLocalMaintenance(Stabilize(w, p), p), p), p)

(***************************************************************************)
(* The scenario of peer_test.cc.  The peers are constructed; the first one *)
(* starts the ring and the others join through it in order.  A caller      *)
(* creates a key, reads it from several peers, lets peers leave, and       *)
(* sleeps while the maintenance token goes round.  A call is one step; the *)
(* caller takes its result in the next step.                               *)
(***************************************************************************)

VARIABLES
    peers,      \* the fields of every Peer object
    started,    \* the peers on which StartChord or Join was called
    left,       \* the peers on which Leave was called
    result,     \* the call whose result the caller has not taken yet
    history,    \* what happened to each key since it was created
    sleeps,     \* [asleep, naps, rounds]: the caller's sleep(20)
    inputs      \* the operands of the last operation on a Key

vars == <<peers, started, left, result, history, sleeps, inputs>>

\* Keys the callers create and read: hash("1") of peer_test.cc, which no peer
\* has as its id, and the id of the second peer.
TestKeys == {176 * (keys_in_ring \div 256), PeerId(2)}

\* Values the callers store.
TestValues == {"val"}

\* The peers on which the callers call Create and Read: the first peer, one
\* that joins early and the last one to join.
Callers == {1, 8, NumPeers}

\* The peers on which the callers call Leave, the first two as in LeaveTest.
Leavers == {1, 2}

\* The callers call Create at most MaxCreates times, when the ring has one of
\* CreateSizes peers: the single-node ring, the ring of MaintenanceTest with
\* peers still to join, and the full ring.
MaxCreates == 1
CreateSizes == {1, NumPeers - 2, NumPeers}

\* The caller sleeps at most MaxNaps times, for the time the token takes to
\* make MaxRounds hops.
MaxNaps == 1
MaxRounds == 20

\* Peer::Peer(ip_addr, port): the fields after construction.  terminated_
\* and stuck_ tell what became of the maintenance thread of the peer.
NewPeer(p) ==
    [listening |-> FALSE, min_key_ |-> PeerId(p), predecessor_ |-> NullOpt,
     successors_ |-> <<>>, finger_table_ |-> <<>>, data_ |-> <<>>,
     index_ |-> {}, current_client_id_ |-> NullOpt,
     maintenance_thread_ |-> FALSE, terminated_ |-> FALSE, stuck_ |-> FALSE,
     undefined_ |-> FALSE, sample_ |-> 1]

NoCall == [op |-> "none", p |-> 0, key |-> 0, value |-> "", ok |-> TRUE,
           val |-> FALSE, count |-> 0]

NoHistory ==
    [k \in TestKeys |-> [value |-> "", created |-> FALSE, creator |-> 0,
                         creates |-> 0, joins |-> 0, leaves |-> 0,
                         rounds |-> 0]]

NoInputs == [op |-> "none", a |-> 0, b |-> 0, c |-> 0, n |-> 0,
             inclusive |-> FALSE, out |-> 0]

Init ==
    /\ peers = [p \in Peers |-> NewPeer(p)]
    /\ started = {}
    /\ left = {}
    /\ result = NoCall
    /\ history = NoHistory
    /\ sleeps = [asleep |-> FALSE, naps |-> 0, rounds |-> 0]
    /\ inputs = NoInputs

\* The caller is between two calls.
Idle == result = NoCall /\ ~ sleeps.asleep

\* The peers whose process runs: the objects on which a caller can call a
\* member function.  An exception that leaves a std::thread ends the
\* process.
Running == {p \in started : ~ peers[p].terminated_}

\* The number of calls of Create so far.
RECURSIVE SumCreates(_)
SumCreates(ks) ==
    IF ks = {} THEN 0
    ELSE LET k == CHOOSE x \in ks : TRUE
         IN  history[k].creates + SumCreates(ks \ {k})

\* history after a membership change.
Changed(field) ==
    [k \in TestKeys |->
        IF history[k].created
        THEN [history[k] EXCEPT ![field] = @ + 1, !.rounds = 0]
        ELSE history[k]]

\* peer1.StartChord() of peer_test.cc.
StartChordReturns(r) ==
    /\ peers' = r.w
    /\ result' = [NoCall EXCEPT !.op = "StartChord", !.p = 1, !.ok = r.ok,
                                !.val = r.val]

DoStartChord ==
    /\ Idle
    /\ started = {}
    /\ StartChordReturns(StartChord(peers, 1))
    /\ started' = {1}
    /\ UNCHANGED <<left, history, sleeps, inputs>>

\* peerN.Join("127.0.0.1", 5055) of peer_test.cc: the next peer joins
\* through the first one.
JoinReturns(r, p) ==
    /\ peers' = r.w
    /\ started' = started \cup {p}
    /\ result' = [NoCall EXCEPT !.op = "Join", !.p = p, !.ok = r.ok]

DoJoin ==
    /\ Idle
    /\ started # {} /\ started # Peers
    /\ \E p \in Peers \ started :
          /\ \A o \in Peers \ started : p <= o
          /\ JoinReturns(Join(peers, p, 1), p)
    /\ history' = Changed("joins")
    /\ UNCHANGED <<left, sleeps, inputs>>

\* The peers that hold a fragment of key in world w.
Holders(w, key) == {q \in Peers : key \in DOMAIN w[q].data_}

\* A caller calls Create(key, value) on a peer that was started.  count is
\* the number of peers that hold a fragment of key they did not hold before.
CreateReturns(r, p, key, value) ==
    /\ peers' = r.w
    /\ result' = [op |-> "Create", p |-> p, key |-> key, value |-> value,
                  ok |-> r.ok, val |-> r.ok /\ r.val,
                  count |-> Cardinality(Holders(r.w, key)
                                        \ Holders(peers, key))]
    /\ history' =
          [history EXCEPT
              ![key] = IF r.ok /\ r.val /\ ~ @.created
                       THEN [value |-> value, created |-> TRUE,
                             creator |-> p, creates |-> @.creates + 1,
                             joins |-> 0, leaves |-> 0, rounds |-> 0]
                       ELSE [@ EXCEPT !.creates = @ + 1]]

DoCreate ==
    /\ Idle
    /\ SumCreates(TestKeys) < MaxCreates
    /\ Cardinality(started) \in CreateSizes
    /\ \E p \in Running \cap Callers, key \in TestKeys, value \in TestValues :
          CreateReturns(Create(peers, p, key, value), p, key, value)
    /\ UNCHANGED <<started, left, sleeps, inputs>>

\* The fragment indices a Read of key by p can obtain from the peers of
\* succ_list: those it holds itself and those a reachable peer holds.
Obtainable(w, p, key, succ_list) ==
    {w[q].data_[key].index_ :
        q \in {o \in Peers :
                  /\ \E i \in 1 .. Len(succ_list) : succ_list[i].addr = o
                  /\ o = p \/ Reachable(w, o, {})
                  /\ key \in w[o].index_
                  /\ key \in DOMAIN w[o].data_}}

\* A caller calls Read(key).Decode() on a peer that was started.  val tells
\* whether the successors of key were found and count is the number of
\* distinct fragment indices they hold.
ReadReturns(r, s, p, key) ==
    /\ peers' = r.w
    /\ result' = [op |-> "Read", p |-> p, key |-> key,
                  value |-> IF r.ok THEN r.val ELSE "",
                  ok |-> r.ok, val |-> s.ok,
                  count |-> IF s.ok
                            THEN Cardinality(Obtainable(s.w, p, key, s.val))
                            ELSE 0]

DoRead ==
    /\ Idle
    /\ \E p \in Running \cap Callers, key \in TestKeys :
          ReadReturns(Read(peers, p, key, {}),
                      GetNSuccessors(peers, p, key, NUM_REPLICAS, {}), p, key)
    /\ UNCHANGED <<started, left, history, sleeps, inputs>>

\* A caller calls Leave() on a peer of the full ring, as LeaveTest does.
LeaveReturns(r, p) ==
    /\ peers' = r.w
    /\ result' = [NoCall EXCEPT !.op = "Leave", !.p = p, !.ok = r.ok]

DoLeave ==
    /\ Idle
    /\ started = Peers
    /\ \E p \in (Leavers \cap Running) \ left :
          /\ LeaveReturns(Leave(peers, p), p)
          /\ left' = left \cup {p}
    /\ history' = Changed("leaves")
    /\ UNCHANGED <<started, sleeps, inputs>>

\* The caller takes the result of its call.
Return ==
    /\ result # NoCall
    /\ result' = NoCall
    /\ UNCHANGED <<peers, started, left, history, sleeps, inputs>>

\* sleep(20) of peer_test.cc, "give time to reposition keys": the caller
\* sleeps once the ring is complete and a key was created.
Sleep ==
    /\ Idle
    /\ started = Peers
    /\ \E k \in TestKeys : history[k].created
    /\ sleeps.naps < MaxNaps
    /\ sleeps' = [asleep |-> TRUE, naps |-> sleeps.naps + 1, rounds |-> 0]
    /\ UNCHANGED <<peers, started, left, result, history, inputs>>

\* A peer whose maintenance thread can run a round.
Runnable(p) ==
    /\ p \in started
    /\ peers[p].maintenance_thread_
    /\ peers[p].successors_ # <<>>

\* The caller wakes when the time has passed or no thread is left to run.
Wake ==
    /\ sleeps.asleep
    /\ sleeps.rounds = MaxRounds \/ ~ \E p \in Peers : Runnable(p)
    /\ sleeps' = [sleeps EXCEPT !.asleep = FALSE]
    /\ UNCHANGED <<peers, started, left, result, history, inputs>>

\* The world after the round r of the maintenance thread of p.
ThreadAfter(r, p) ==
    IF ~ r.ok
    THEN [r.w EXCEPT ![p].listening = FALSE, ![p].terminated_ = TRUE]
    ELSE IF ~ r.val THEN [r.w EXCEPT ![p].stuck_ = TRUE]
    ELSE r.w

\* The maintenance thread of a peer runs RunGeneralMaintenance once its
\* successor list is not empty.  An exception that leaves the thread
\* terminates the process of the peer; a walk of RunGlobalMaintenance that
\* does not end keeps the thread, and the token, for ever.
DoMaintenance ==
    /\ sleeps.asleep
    /\ sleeps.rounds < MaxRounds
    /\ \E p \in Peers :
          /\ Runnable(p)
          /\ peers' = ThreadAfter(
                          RunGeneralMaintenance(
                              [peers EXCEPT ![p].maintenance_thread_ = FALSE],
                              p), p)
    /\ sleeps' = [sleeps EXCEPT !.rounds = @ + 1]
    /\ history' = [k \in TestKeys |->
                      IF history[k].created
                      THEN [history[k] EXCEPT !.rounds = @ + 1]
                      ELSE history[k]]
    /\ UNCHANGED <<started, left, result, inputs>>

Next ==
    \/ DoStartChord
    \/ DoJoin
    \/ DoCreate
    \/ DoRead
    \/ DoLeave
    \/ Return
    \/ Sleep
    \/ DoMaintenance
    \/ Wake

Spec == Init /\ [][Next]_vars

(***************************************************************************)
(* The ring arithmetic of Key on its own: the operands are drawn at the    *)
(* start and one operation is applied to them.                             *)
(***************************************************************************)

\* Values of the operands: the keys of KeyInBetweenTest (0, 1, 25, 75, 99),
\* the last key of the ring, and two values a uint256_t holds beyond the
\* ring: the key after the last one and the largest value of the type.
KeySamples == {0, 1, 25, 75, 99, keys_in_ring - 1, keys_in_ring, UintMod - 1}

\* Values of the int operand of operator + and operator -.
KeyAddends == {0, 1, 2}

KeyInit ==
    /\ peers = [p \in Peers |-> NewPeer(p)]
    /\ started = {}
    /\ left = {}
    /\ result = NoCall
    /\ history = NoHistory
    /\ sleeps = [asleep |-> FALSE, naps |-> 0, rounds |-> 0]
    /\ \E a \in KeySamples, b \in KeySamples, c \in KeySamples,
          n \in KeyAddends, inclusive \in BOOLEAN :
          inputs = [NoInputs EXCEPT !.a = a, !.b = b, !.c = c, !.n = n,
                                    !.inclusive = inclusive]

\* Key(a).InBetween(b, c, inclusive).
KeyInBetween ==
    /\ inputs.op = "none"
    /\ inputs' = [inputs EXCEPT !.op = "InBetween",
                                !.out = InBetween(inputs.a, inputs.b, inputs.c,
                                                  inputs.inclusive)]
    /\ UNCHANGED <<peers, started, left, result, history, sleeps>>

\* The exclusive tests on the three operands: a in (b, c), b in (c, a),
\* c in (a, b) and a in (c, b).
KeyTriple ==
    /\ inputs.op = "none"
    /\ inputs' = [inputs EXCEPT
                    !.op = "Triple",
                    !.out = <<InBetween(inputs.a, inputs.b, inputs.c, FALSE),
                              InBetween(inputs.b, inputs.c, inputs.a, FALSE),
                              InBetween(inputs.c, inputs.a, inputs.b, FALSE),
                              InBetween(inputs.a, inputs.c, inputs.b, FALSE)>>]
    /\ UNCHANGED <<peers, started, left, result, history, sleeps>>

\* Key(a) + n.
KeyAdd ==
    /\ inputs.op = "none"
    /\ inputs' = [inputs EXCEPT !.op = "+",
                                !.out = KeyPlus(inputs.a, inputs.n)]
    /\ UNCHANGED <<peers, started, left, result, history, sleeps>>

\* Key(a) - n.
KeySub ==
    /\ inputs.op = "none"
    /\ inputs' = [inputs EXCEPT !.op = "-",
                                !.out = KeyMinus(inputs.a, inputs.n)]
    /\ UNCHANGED <<peers, started, left, result, history, sleeps>>

KeyNext ==
    \/ KeyInBetween
    \/ KeyTriple
    \/ KeyAdd
    \/ KeySub

KeySpec == KeyInit /\ [][KeyNext]_vars

(***************************************************************************)
(* Properties of the ring arithmetic.                                      *)
(***************************************************************************)

\* The position of a value on the ring.
RingPosition(v) == v % keys_in_ring

\* key lies on the clockwise arc from lo to hi, the endpoints belonging to
\* the arc iff inclusive.
OnArc(key, lo, hi, inclusive) ==
    IF inclusive
    THEN (RingPosition(key) - RingPosition(lo)) % keys_in_ring
            <= (RingPosition(hi) - RingPosition(lo)) % keys_in_ring
    ELSE /\ 0 < (RingPosition(key) - RingPosition(lo)) % keys_in_ring
         /\ (RingPosition(key) - RingPosition(lo)) % keys_in_ring
               < (RingPosition(hi) - RingPosition(lo)) % keys_in_ring

\* The operands are keys of the ring.
InRing(v) == v \in 0 .. (keys_in_ring - 1)

\* C8: InBetween(lo, hi, inclusive) with lo and hi at different positions
\* is true exactly when the key lies on the clockwise arc from lo to hi,
\* and with lo = hi it is key = lo.
C8_InBetweenIsArc ==
    inputs.op = "InBetween" =>
        IF inputs.b = inputs.c
        THEN inputs.out = (inputs.a = inputs.b)
        ELSE RingPosition(inputs.b) # RingPosition(inputs.c) =>
                inputs.out = OnArc(inputs.a, inputs.b, inputs.c,
                                   inputs.inclusive)

\* The three operands are pairwise distinct.
DistinctTriple == Cardinality({inputs.a, inputs.b, inputs.c}) = 3

\* Number of the first three exclusive tests that are true.
TrueOfThree ==
    Cardinality({i \in 1 .. 3 : inputs.out[i]})

\* C9 as stated: for pairwise distinct a, b, c exactly one of
\* a.InBetween(b, c, false), b.InBetween(c, a, false),
\* c.InBetween(a, b, false) is true.
C9_ExactlyOneOfThree ==
    (inputs.op = "Triple" /\ DistinctTriple) => TrueOfThree = 1

\* C9 amended: for pairwise distinct keys a, b, c of the ring the three
\* rotated tests agree (all true when a lies on the arc from b to c, all
\* false otherwise), and exactly one of a.InBetween(b, c, false) and
\* a.InBetween(c, b, false) is true.
C9_RotationsAgree ==
    (/\ inputs.op = "Triple"
     /\ DistinctTriple
     /\ InRing(inputs.a) /\ InRing(inputs.b) /\ InRing(inputs.c)) =>
        /\ TrueOfThree \in {0, 3}
        /\ inputs.out[1] = OnArc(inputs.a, inputs.b, inputs.c, FALSE)
        /\ inputs.out[1] # inputs.out[4]

\* A distinct triple of the ring whose arc wraps past zero and holds a.
C9_Witness ==
    /\ inputs.op = "Triple"
    /\ DistinctTriple
    /\ InRing(inputs.a) /\ InRing(inputs.b) /\ InRing(inputs.c)
    /\ inputs.b > inputs.c
    /\ TrueOfThree = 3

\* C10: for a key k of the ring the value of k + n and of k - n is a key of
\* the ring.
C10_ResultInRing ==
    (inputs.op \in {"+", "-"} /\ InRing(inputs.a)) => InRing(inputs.out)

(***************************************************************************)
(* Properties of Create, Read and maintenance.                             *)
(***************************************************************************)

\* The peers of the ring that did not leave.
Remaining == started \ left

\* Number of keys between k and the id of q, clockwise: 0 for a peer whose
\* id is k.
ClockwiseFrom(k, q) == (PeerId(q) - k) % keys_in_ring

\* The n immediate successors of k: the n remaining peers that follow k
\* most closely, the successor of k being the peer of smallest id >= k.
ImmediateSuccessors(k, n) ==
    {q \in Remaining :
        Cardinality({o \in Remaining :
                        ClockwiseFrom(k, o) < ClockwiseFrom(k, q)}) < n}

\* Each of the MIN_FRAGMENTS immediate successors of k holds a fragment of k
\* and the indices of these fragments are pairwise distinct.
Replicated(k) ==
    /\ \A q \in ImmediateSuccessors(k, MIN_FRAGMENTS) :
          k \in DOMAIN peers[q].data_
    /\ \A q, o \in ImmediateSuccessors(k, MIN_FRAGMENTS) :
          (q # o /\ k \in DOMAIN peers[q].data_ /\ k \in DOMAIN peers[o].data_)
              => peers[q].data_[k].index_ # peers[o].data_[k].index_

\* Maintenance has run since the last membership change after the Create of
\* k: the caller slept and woke, and in between the round went once around
\* the ring or stopped because no maintenance thread is left to run.
MaintenanceRan(k) ==
    /\ history[k].created
    /\ sleeps.naps > 0
    /\ ~ sleeps.asleep
    /\ history[k].rounds > 0
    /\ history[k].rounds >= NumPeers \/ ~ \E p \in Peers : Runnable(p)

\* C1: once k was created and the membership changed, after maintenance
\* each of the M immediate successors of k holds one fragment of k, of
\* pairwise distinct indices.
C1_EventualReplication ==
    \A k \in TestKeys :
        (MaintenanceRan(k) /\ history[k].joins + history[k].leaves > 0)
            => Replicated(k)

\* A Read of a key that was created returned the created value.
ReadGotValue ==
    result.ok /\ result.value = history[result.key].value

\* C2: when Create(k, v) returned true and no peer joined or left since, a
\* Read(k) by a remaining peer returns v.
C2_ReadYourWrite ==
    (/\ result.op = "Read"
     /\ result.p \in Remaining
     /\ history[result.key].created
     /\ history[result.key].joins = 0
     /\ history[result.key].leaves = 0) => ReadGotValue

\* A peer other than the creator read the value in the ring of the Create.
C2_Witness ==
    /\ result.op = "Read"
    /\ result.p \in Remaining
    /\ history[result.key].created
    /\ history[result.key].joins = 0
    /\ history[result.key].leaves = 0
    /\ result.p # history[result.key].creator
    /\ ReadGotValue

\* C3: on a ring of one peer Create(k, v) returns true and a following
\* Read(k) returns v.
C3_SingleNode ==
    started = {1} =>
        /\ result.op = "Create" => (result.ok /\ result.val)
        /\ (result.op = "Read" /\ history[result.key].creates > 0)
              => ReadGotValue

\* C4: Create returns, and it returns true iff at least M = 10 fragments
\* were placed.
C4_CreateThreshold ==
    result.op = "Create" =>
        /\ result.ok
        /\ result.val <=> (result.count >= MIN_FRAGMENTS)

C7_LeavePreservesData ==
    \A k \in TestKeys :
        (/\ MaintenanceRan(k)
         /\ history[k].joins = 0
         /\ history[k].leaves \in 1 .. (NUM_REPLICAS - MIN_FRAGMENTS)
         /\ left \subseteq Holders(peers, k)) =>
            /\ Remaining \subseteq Running
            /\ (result.op = "Read" /\ result.key = k /\ result.p \in Remaining)
                  => ReadGotValue

(***************************************************************************)
(* The finger table on its own: a starting key and a key to look up are    *)
(* drawn at the start; one range is computed, or the key is looked up in   *)
(* the table that holds every range of the starting key.                   *)
(***************************************************************************)

\* Starting keys: ids with fewer hex digits than the ring has (0, 1, 9, 15),
\* the first id of full width, ids of KeyInBetweenTest, the middle of the
\* ring and its last key.
FingerStarts == {0, 1, 9, 15, keys_in_ring \div 16, 75, 99,
                 keys_in_ring \div 2, keys_in_ring - 1}

\* The table after PopulateFingerTable(true) added a finger for every entry
\* of the table of starting_key.
PopulatedTable(starting_key) ==
    [i \in 1 .. num_entries_ |->
        [lower_bound_ |-> GetNthRange(starting_key, i - 1)[1],
         upper_bound_ |-> GetNthRange(starting_key, i - 1)[2],
         successor_ |-> NullRepr]]

FingerInit ==
    /\ peers = [p \in Peers |-> NewPeer(p)]
    /\ started = {}
    /\ left = {}
    /\ result = NoCall
    /\ history = NoHistory
    /\ sleeps = [asleep |-> FALSE, naps |-> 0, rounds |-> 0]
    /\ \E a \in FingerStarts, b \in FingerStarts :
          inputs = [NoInputs EXCEPT !.a = a, !.b = b]

\* FingerTable(a).GetNthRange(n) for an entry n of the table.
FingerRange ==
    /\ inputs.op = "none"
    /\ \E n \in 0 .. (num_entries_ - 1) :
          inputs' = [inputs EXCEPT !.op = "GetNthRange", !.n = n,
                                   !.out = GetNthRange(inputs.a, n)]
    /\ UNCHANGED <<peers, started, left, result, history, sleeps>>

\* Lookup(b) on the populated table of a.
FingerLookup ==
    /\ inputs.op = "none"
    /\ inputs' = [inputs EXCEPT !.op = "Lookup",
                                !.out = Lookup(PopulatedTable(inputs.a),
                                               inputs.b)]
    /\ UNCHANGED <<peers, started, left, result, history, sleeps>>

FingerNext ==
    \/ FingerRange
    \/ FingerLookup

FingerSpec == FingerInit /\ [][FingerNext]_vars

(***************************************************************************)
(* Properties of the finger table.                                         *)
(***************************************************************************)

\* C11: the range of entry n of the table of a starting key s is
\* [s + 2^n, s + 2^(n+1) - 1] modulo the size of the ring, whatever the
\* number of hex digits of s.
C11_RangesModuloRing ==
    inputs.op = "GetNthRange" =>
        inputs.out = <<(inputs.a + 2 ^ inputs.n) % keys_in_ring,
                       (inputs.a + 2 ^ (inputs.n + 1) - 1) % keys_in_ring>>

\* The entries of the table of s whose range holds k.
RangesHolding(s, k) ==
    {i \in 1 .. num_entries_ :
        InBetween(k, GetNthRange(s, i - 1)[1], GetNthRange(s, i - 1)[2],
                  TRUE)}

\* C12: the ranges of the table of a starting key are pairwise disjoint and
\* cover the ring, so that Lookup(k) on the populated table finds an entry
\* for every key k.
C12_RangesPartitionRing ==
    inputs.op = "Lookup" =>
        /\ inputs.out # 0
        /\ Cardinality(RangesHolding(inputs.a, inputs.b)) = 1

(***************************************************************************)
(* PeerList on its own: the list of an owner starts empty and peers are    *)
(* inserted one after the other.                                           *)
(***************************************************************************)

\* The peers whose lists are followed and who are inserted.
ListPeers == 5

\* max_entries_ of the followed list (Peer gives its successors_
\* NUM_REPLICAS entries).
ListMax == 3

\* Number of Insert calls followed.
MaxInserts == 4

\* PeerList::Insert(new_peer): the value returned.
PeerListInsertReturns(peers_, new_peer, max_entries_) ==
    IF peers_ = <<>> THEN TRUE
    ELSE LET pos == InsertPosition(peers_, new_peer,
                                   peers_[Len(peers_)].id_, 1)
         IN  IF pos = -1 THEN FALSE
             ELSE IF pos > 0 THEN TRUE
             ELSE Len(peers_) < max_entries_

\* The PeerRepr of peer p before it joined a ring.
ReprOf(p) ==
    [id_ |-> PeerId(p), min_key_ |-> PeerId(p), max_key_ |-> PeerId(p),
     addr |-> p]

ListInit ==
    /\ peers = [p \in Peers |-> NewPeer(p)]
    /\ started = {}
    /\ left = {}
    /\ result = NoCall
    /\ history = NoHistory
    /\ sleeps = [asleep |-> FALSE, naps |-> 0, rounds |-> 0]
    /\ \E owner \in 1 .. ListPeers :
          inputs = [op |-> "none", owner |-> owner, peers_ |-> <<>>,
                    before |-> <<>>, new_peer |-> NullRepr,
                    returned |-> FALSE, calls |-> 0]

\* successors_.Insert(new_peer) of the owner for another peer q.
ListInsert ==
    /\ inputs.calls < MaxInserts
    /\ \E q \in (1 .. ListPeers) \ {inputs.owner} :
          inputs' = [op |-> "Insert", owner |-> inputs.owner,
                     peers_ |-> PeerListInsert(inputs.peers_, ReprOf(q),
                                               ListMax),
                     before |-> inputs.peers_, new_peer |-> ReprOf(q),
                     returned |-> PeerListInsertReturns(inputs.peers_,
                                                        ReprOf(q), ListMax),
                     calls |-> inputs.calls + 1]
    /\ UNCHANGED <<peers, started, left, result, history, sleeps>>

ListNext == ListInsert

ListSpec == ListInit /\ [][ListNext]_vars

(***************************************************************************)
(* Properties of PeerList.                                                 *)
(***************************************************************************)

\* The ids of the entries of a list.
IdsOf(peers_) == {peers_[i].id_ : i \in 1 .. Len(peers_)}

\* Clockwise distance from the id of peer owner to id.
FromOwner(owner, id) == (id - PeerId(owner)) % keys_in_ring

\* The entries of the list come in clockwise order starting from the id of
\* the owner; no two have the same id.
SortedFromOwner(owner, peers_) ==
    \A i \in 1 .. Len(peers_), j \in 1 .. Len(peers_) :
        i < j => FromOwner(owner, peers_[i].id_)
                    < FromOwner(owner, peers_[j].id_)

\* C13: after any sequence of Insert calls from the empty list the list is
\* sorted clockwise from the id of its owner, holds no id twice and at most
\* max_entries_ entries; an Insert of an id of the list returns false and
\* leaves the list as it was.
C13_ListSortedFromOwner ==
    inputs.op = "Insert" =>
        /\ SortedFromOwner(inputs.owner, inputs.peers_)
        /\ Len(inputs.peers_) <= ListMax
        /\ inputs.new_peer.id_ \in IdsOf(inputs.before) =>
              (~ inputs.returned /\ inputs.peers_ = inputs.before)

(***************************************************************************)
(* CSMerkleNode (merkle_node.cpp): the index of a Database.                *)
(*                                                                         *)
(* A pointer to a node is <<>> (nullptr) or <<node>>.  A key is the first  *)
(* byte of its hash, placed on the ring as the id of a peer is.            *)
(***************************************************************************)

\* Key(name, false) of the names the tests of MerkelNode insert ("a", "b",
\* "c") and look up ("d"): the first byte of the hash of the name.
NameHashByte == [a |-> 79, b |-> 63, c |-> 183, d |-> 149]

\* Key(name, false).
KeyOfName(name) == NameHashByte[name] * (keys_in_ring \div 256)

\* Key(std::string(key1) + std::string(key2), false) for the first bytes of
\* key1 and key2 and of the hash: the pairs that the trees over the keys of
\* NameHashByte concatenate.
ConcatHashByte ==
    <<<<2, 63, 59>>, <<2, 149, 91>>, <<2, 183, 177>>, <<63, 2, 85>>,
      <<63, 9, 186>>, <<63, 79, 116>>, <<63, 149, 252>>, <<63, 183, 28>>,
      <<63, 226, 252>>, <<63, 244, 49>>, <<79, 2, 234>>, <<79, 9, 135>>,
      <<79, 59, 226>>, <<79, 85, 159>>, <<79, 149, 108>>, <<79, 183, 163>>,
      <<79, 226, 252>>, <<85, 2, 193>>, <<85, 79, 244>>, <<85, 149, 176>>,
      <<85, 183, 78>>, <<116, 2, 204>>, <<116, 59, 83>>, <<116, 149, 239>>,
      <<116, 183, 158>>, <<149, 183, 2>>, <<159, 149, 83>>,
      <<159, 183, 122>>, <<204, 149, 58>>, <<204, 183, 147>>,
      <<226, 149, 38>>, <<226, 183, 123>>, <<234, 2, 222>>,
      <<234, 149, 9>>, <<234, 183, 226>>, <<244, 149, 121>>,
      <<244, 183, 55>>>>

\* ConcatHash(key1, key2).
ConcatHash(key1, key2) ==
    LET byte1 == key1 \div (keys_in_ring \div 256)
        byte2 == key2 \div (keys_in_ring \div 256)
        entry == CHOOSE i \in 1 .. Len(ConcatHashByte) :
                     /\ ConcatHashByte[i][1] = byte1
                     /\ ConcatHashByte[i][2] = byte2
    IN  ConcatHashByte[entry][3] * (keys_in_ring \div 256)

\* Distance(key1, key2): floor(log2(key1 ^ key2)), the position of the
\* highest bit in which the keys differ; -1 stands for the value of equal
\* keys, below every other distance.
RECURSIVE Distance(_, _)
Distance(key1, key2) ==
    IF key1 = key2 THEN -1
    ELSE 1 + Distance(key1 \div 2, key2 \div 2)

\* CSMerkleNode(key): a leaf.
LeafNode(key) == [hash_ |-> key, left_ |-> <<>>, right_ |-> <<>>]

\* CSMerkleNode(left, right) of two nodes.
InnerNode(left_child, right_child) ==
    [hash_ |-> ConcatHash(left_child.hash_, right_child.hash_),
     left_ |-> <<left_child>>, right_ |-> <<right_child>>]

\* CSMerkleNode(nullptr, nullptr): the index of a new Database.
EmptyIndex == [root_ |-> <<>>, left_ |-> <<>>, right_ |-> <<>>, hash_ |-> 0]

\* CSMerkleNode::IsLeaf().
IsLeaf(node) == node.left_ = <<>> /\ node.right_ = <<>>

\* CSMerkleNode::InsertLeaf(leaf, key).
InsertLeaf(leaf, key) ==
    IF key < leaf.hash_ THEN InnerNode(LeafNode(key), leaf)
    ELSE IF key > leaf.hash_ THEN InnerNode(leaf, LeafNode(key))
    ELSE leaf

\* CSMerkleNode::Insert(root, key) called on the index this: min_key is
\* taken from the children of this, not of root.
RECURSIVE InsertAt(_, _, _)
InsertAt(this, root, key) ==
    IF IsLeaf(root) THEN InsertLeaf(root, key)
    ELSE LET l_dist == Distance(key, root.left_[1].hash_)
             r_dist == Distance(key, root.right_[1].hash_)
             min_key == IF this.left_[1].hash_ < this.right_[1].hash_
                        THEN this.left_[1].hash_
                        ELSE this.right_[1].hash_
         IN  IF l_dist = r_dist
             THEN IF key < min_key THEN InnerNode(LeafNode(key), root)
                  ELSE InnerNode(root, LeafNode(key))
             ELSE IF l_dist < r_dist
                  THEN InnerNode(InsertAt(this, root.left_[1], key),
                                 root.right_[1])
                  ELSE InnerNode(root.left_[1],
                                 InsertAt(this, root.right_[1], key))

\* The index whose root_ became root: left_, right_ and hash_ are copied
\* from it.
WithRoot(root) ==
    [root_ |-> <<root>>, left_ |-> root.left_, right_ |-> root.right_,
     hash_ |-> root.hash_]

\* CSMerkleNode::Insert(key) on the index this: the index after the call.
IndexInsert(this, key) ==
    IF this.root_ # <<>> THEN WithRoot(InsertAt(this, this.root_[1], key))
    ELSE WithRoot(LeafNode(key))

\* CSMerkleNode::Delete(root, key): the pointer returned.
RECURSIVE DeleteAt(_, _)
DeleteAt(root, key) ==
    IF IsLeaf(root) THEN IF root.hash_ = key THEN <<>> ELSE <<root>>
    ELSE IF IsLeaf(root.left_[1]) /\ root.left_[1].hash_ = key
         THEN root.right_
    ELSE IF IsLeaf(root.right_[1]) /\ root.right_[1].hash_ = key
         THEN root.left_
    ELSE LET l_dist == Distance(key, root.left_[1].hash_)
             r_dist == Distance(key, root.right_[1].hash_)
         IN  IF l_dist = r_dist THEN <<root>>
             ELSE IF l_dist < r_dist
                  THEN <<InnerNode(DeleteAt(root.left_[1], key)[1],
                                   root.right_[1])>>
                  ELSE <<InnerNode(root.left_[1],
                                   DeleteAt(root.right_[1], key)[1])>>

\* CSMerkleNode::Delete(key) on the index this: "threw" when there is no
\* root, "null" when root_ became nullptr and root_->left_ is read through
\* it, "done" otherwise.
IndexDeleteOutcome(this, key) ==
    IF this.root_ = <<>> THEN "threw"
    ELSE IF DeleteAt(this.root_[1], key) = <<>> THEN "null"
    ELSE "done"

\* CSMerkleNode::Delete(key) on the index this: the index after a call that
\* returned.
IndexDelete(this, key) == WithRoot(DeleteAt(this.root_[1], key)[1])

\* CSMerkleNode::Contains(root, key).
RECURSIVE ContainsAt(_, _)
ContainsAt(root, key) ==
    IF IsLeaf(root) THEN root.hash_ = key
    ELSE IF IsLeaf(root.left_[1]) /\ root.left_[1].hash_ = key THEN TRUE
    ELSE IF IsLeaf(root.right_[1]) /\ root.right_[1].hash_ = key THEN TRUE
    ELSE LET l_dist == Distance(key, root.left_[1].hash_)
             r_dist == Distance(key, root.right_[1].hash_)
         IN  IF l_dist < r_dist THEN ContainsAt(root.left_[1], key)
             ELSE IF r_dist < l_dist THEN ContainsAt(root.right_[1], key)
             ELSE FALSE

\* CSMerkleNode::Contains(key) on the index this.
IndexContains(this, key) ==
    IF this.root_ # <<>> THEN ContainsAt(this.root_[1], key) ELSE FALSE

(***************************************************************************)
(* The index on its own: keys are inserted into, deleted from and looked   *)
(* up in an index that starts empty.                                       *)
(***************************************************************************)

\* The keys the index is called with.
MerkleKeys == {KeyOfName(name) : name \in DOMAIN NameHashByte}

\* Number of Insert and Delete calls followed.
MaxMerkleCalls == 4

MerkleInit ==
    /\ peers = [p \in Peers |-> NewPeer(p)]
    /\ started = {}
    /\ left = {}
    /\ result = NoCall
    /\ history = NoHistory
    /\ sleeps = [asleep |-> FALSE, naps |-> 0, rounds |-> 0]
    /\ inputs = [op |-> "none", key |-> 0, index |-> EmptyIndex,
                 before |-> EmptyIndex, log |-> <<>>, out |-> FALSE,
                 threw |-> FALSE, undefined |-> FALSE]

\* root.Insert(key).
MerkleInsert ==
    /\ ~ inputs.undefined
    /\ Len(inputs.log) < MaxMerkleCalls
    /\ \E key \in MerkleKeys :
          inputs' = [op |-> "Insert", key |-> key,
                     index |-> IndexInsert(inputs.index, key),
                     before |-> inputs.index,
                     log |-> Append(inputs.log, <<"Insert", key>>),
                     out |-> FALSE, threw |-> FALSE, undefined |-> FALSE]
    /\ UNCHANGED <<peers, started, left, result, history, sleeps>>

\* root.Delete(key).  When root_ became nullptr the read of root_->left_ is
\* undefined: the process is killed, or the call goes on with root_ null and
\* the other members as they were.
MerkleDelete ==
    /\ ~ inputs.undefined
    /\ Len(inputs.log) < MaxMerkleCalls
    /\ \E key \in MerkleKeys, killed \in BOOLEAN :
          LET outcome == IndexDeleteOutcome(inputs.index, key)
          IN  /\ outcome = "null" \/ ~ killed
              /\ inputs' =
                    [op |-> "Delete", key |-> key,
                     index |-> IF outcome = "done"
                               THEN IndexDelete(inputs.index, key)
                               ELSE IF outcome = "null" /\ ~ killed
                               THEN [inputs.index EXCEPT !.root_ = <<>>]
                               ELSE inputs.index,
                     before |-> inputs.index,
                     log |-> Append(inputs.log, <<"Delete", key>>),
                     out |-> FALSE, threw |-> outcome = "threw",
                     undefined |-> outcome = "null"]
    /\ UNCHANGED <<peers, started, left, result, history, sleeps>>

\* root.Contains(key).
MerkleContains ==
    /\ ~ inputs.undefined
    /\ \E key \in MerkleKeys :
          inputs' = [inputs EXCEPT !.op = "Contains", !.key = key,
                                   !.before = inputs.index,
                                   !.out = IndexContains(inputs.index, key),
                                   !.threw = FALSE]
    /\ UNCHANGED <<peers, started, left, result, history, sleeps>>

MerkleNext ==
    \/ MerkleInsert
    \/ MerkleDelete
    \/ MerkleContains

MerkleSpec == MerkleInit /\ [][MerkleNext]_vars

(***************************************************************************)
(* Properties of the index.                                                *)
(***************************************************************************)

\* Every call so far was an Insert.
OnlyInserts ==
    \A i \in 1 .. Len(inputs.log) : inputs.log[i][1] = "Insert"

\* The keys of the calls so far.
CalledKeys == {inputs.log[i][2] : i \in 1 .. Len(inputs.log)}

\* The keys of a set in ascending order.
RECURSIVE Ascending(_)
Ascending(keys) ==
    IF keys = {} THEN <<>>
    ELSE LET least == CHOOSE k \in keys : \A j \in keys : k <= j
         IN  <<least>> \o Ascending(keys \ {least})

\* The index after the keys of order were inserted, in this order, into an
\* empty index.
RECURSIVE BuiltFrom(_)
BuiltFrom(order) ==
    IF order = <<>> THEN EmptyIndex
    ELSE IndexInsert(BuiltFrom(SubSeq(order, 1, Len(order) - 1)),
                     order[Len(order)])

\* Number of the leaves below a pointer.
RECURSIVE LeavesBelow(_)
LeavesBelow(pointer) ==
    IF pointer = <<>> THEN 0
    ELSE IF IsLeaf(pointer[1]) THEN 1
    ELSE LeavesBelow(pointer[1].left_) + LeavesBelow(pointer[1].right_)

\* C14: an index into which distinct keys were inserted is the index, in
\* shape and in root hash, that the same keys give when they are inserted in
\* ascending order: the order of the Inserts does not matter.
C14_OrderDoesNotMatter ==
    (/\ inputs.op = "Insert"
     /\ OnlyInserts
     /\ Cardinality(CalledKeys) = Len(inputs.log)) =>
        inputs.index = BuiltFrom(Ascending(CalledKeys))

\* C15: after Inserts only, Contains(k) is true exactly for the inserted
\* keys and the tree has one leaf for each inserted key.
C15_ContainsInserted ==
    (inputs.op = "Contains" /\ OnlyInserts) =>
        /\ inputs.out = (inputs.key \in CalledKeys)
        /\ LeavesBelow(inputs.index.root_) = Cardinality(CalledKeys)

\* C16: Delete(k) on an index that contains k returns and leaves an index
\* that does not contain k and still contains every other key it contained,
\* also when k was its only key.
C16_DeleteRemovesOnlyKey ==
    (inputs.op = "Delete" /\ IndexContains(inputs.before, inputs.key)) =>
        /\ ~ inputs.undefined
        /\ ~ inputs.threw
        /\ ~ IndexContains(inputs.index, inputs.key)
        /\ \A j \in MerkleKeys \ {inputs.key} :
              IndexContains(inputs.before, j) =>
                  IndexContains(inputs.index, j)

(***************************************************************************)
(* IDA and DataBlock (data_block.cpp, data_block.h) in floating point.     *)
(*                                                                         *)
(* A double is [m, e], the value m * 2^e with a mantissa m of FloatBits    *)
(* bits (0, or 2^(FloatBits-1) <= |m| < 2^FloatBits); an operation rounds  *)
(* its exact result to the nearest such value, ties to the even mantissa.  *)
(* The width of the mantissa and the parameters n_, m_ and the length of   *)
(* the padded message are scaled down together, so that Encode is exact as *)
(* it is for 14 fragments of 40 characters in a double.                    *)
(***************************************************************************)

\* Bits of the mantissa of a double.
FloatBits == 13

\* ida_(n, m, p): number of fragments, fragments needed, and the length of
\* the padded message.
IdaN == 5
IdaM == 3
IdaLength == 6

Zero == [m |-> 0, e |-> 0]

\* The result of a division by zero, and of an operation on such a result.
NotFinite == [m |-> 0, e |-> 1]

Magnitude(n) == IF n < 0 THEN -n ELSE n
SignOf(n) == IF n < 0 THEN -1 ELSE 1

\* Number of bits of n >= 0.
RECURSIVE BitLength(_)
BitLength(n) == IF n = 0 THEN 0 ELSE 1 + BitLength(n \div 2)

\* The double nearest to sign * n * 2^e for n >= 0; sticky: the exact value
\* lies above n * 2^e by less than 2^e.
RoundToDouble(sign, n, e, sticky) ==
    IF n = 0 THEN Zero
    ELSE LET len == BitLength(n)
         IN  IF len <= FloatBits
             THEN [m |-> sign * n * 2 ^ (FloatBits - len),
                   e |-> e - (FloatBits - len)]
             ELSE LET s == len - FloatBits
                      q == n \div 2 ^ s
                      r == n % 2 ^ s
                      half == 2 ^ (s - 1)
                      up == \/ r > half
                            \/ r = half /\ (sticky \/ q % 2 = 1)
                      q1 == IF up THEN q + 1 ELSE q
                  IN  IF q1 = 2 ^ FloatBits
                      THEN [m |-> sign * 2 ^ (FloatBits - 1), e |-> e + s + 1]
                      ELSE [m |-> sign * q1, e |-> e + s]

\* double(n) of an int n.
FromInt(n) == RoundToDouble(SignOf(n), Magnitude(n), 0, FALSE)

\* a * b.
FMul(a, b) ==
    IF a = NotFinite \/ b = NotFinite THEN NotFinite
    ELSE IF a.m = 0 \/ b.m = 0 THEN Zero
    ELSE RoundToDouble(SignOf(a.m) * SignOf(b.m),
                       Magnitude(a.m) * Magnitude(b.m), a.e + b.e, FALSE)

\* a + b.
FAdd(a, b) ==
    IF a = NotFinite \/ b = NotFinite THEN NotFinite
    ELSE IF a.m = 0 THEN b
    ELSE IF b.m = 0 THEN a
    ELSE LET hi == IF a.e >= b.e THEN a ELSE b
             lo == IF a.e >= b.e THEN b ELSE a
             d == hi.e - lo.e
             sum == hi.m * 2 ^ d + lo.m
         IN  IF d >= FloatBits + 2 THEN hi
             ELSE RoundToDouble(SignOf(sum), Magnitude(sum), lo.e, FALSE)

\* -a and a - b.
FNeg(a) == [a EXCEPT !.m = - a.m]
FSub(a, b) == FAdd(a, FNeg(b))

\* a / b.
FDiv(a, b) ==
    IF a = NotFinite \/ b = NotFinite \/ b.m = 0 THEN NotFinite
    ELSE IF a.m = 0 THEN Zero
    ELSE LET n == Magnitude(a.m) * 2 ^ (FloatBits + 1)
         IN  RoundToDouble(SignOf(a.m) * SignOf(b.m),
                           n \div Magnitude(b.m),
                           a.e - b.e - (FloatBits + 1),
                           n % Magnitude(b.m) # 0)

\* a > b.
FGreater(a, b) ==
    a # NotFinite /\ b # NotFinite /\ FSub(a, b).m > 0

\* int(a): the conversion of a double to int drops the fraction.
ToInt(a) ==
    IF a.e >= 0 THEN a.m * 2 ^ a.e
    ELSE IF - a.e >= FloatBits THEN 0
    ELSE SignOf(a.m) * (Magnitude(a.m) \div 2 ^ (- a.e))

\* round(a): the nearest integer, halves away from zero.
FRound(a) ==
    IF a = NotFinite \/ a.e >= 0 THEN a
    ELSE IF - a.e > FloatBits THEN Zero
    ELSE LET unit == 2 ^ (- a.e)
             q == Magnitude(a.m) \div unit
             r == Magnitude(a.m) % unit
         IN  FromInt(SignOf(a.m) * (IF 2 * r >= unit THEN q + 1 ELSE q))

\* abs(a) as data_block.h calls it: where only the abs of int is declared
\* the argument is converted to int; elsewhere it is the abs of double.
AbsOf(a, int_abs) ==
    IF a = NotFinite THEN NotFinite
    ELSE IF int_abs THEN FromInt(Magnitude(ToInt(a)))
    ELSE [a EXCEPT !.m = Magnitude(a.m)]

\* pow(base, exponent) of two ints, as a double.
Pow(base, exponent) == FromInt(base ^ exponent)

\* The sum over k = from .. m_ - 1 of Term(k) added to acc, in this order.
RECURSIVE SumFrom(_, _, _)
SumFrom(acc, terms, from) ==
    IF from >= Len(terms) THEN acc
    ELSE SumFrom(FAdd(acc, terms[from + 1]), terms, from + 1)

\* IDA::Encode(message): row i, 0 <= i < n_, of the matrix c.
Encode(message) ==
    [i \in 0 .. (IdaN - 1) |->
        [j \in 0 .. ((Len(message) \div IdaM) - 1) |->
            SumFrom(Zero,
                    [k \in 1 .. IdaM |->
                        FMul(Pow(1 + i, k - 1),
                             message[j * IdaM + (k - 1) + 1])],
                    0)]]

\* The largest of abs(row[j]), 0 <= j < size, and 0.
RECURSIVE LargestAbs(_, _, _, _)
LargestAbs(row, j, c1, int_abs) ==
    IF j >= IdaM THEN c1
    ELSE LargestAbs(row, j + 1,
                    IF FGreater(AbsOf(row[j], int_abs), c1)
                    THEN AbsOf(row[j], int_abs) ELSE c1,
                    int_abs)

\* The search of the pivot of column j in PartialPivotGaussElim: k after
\* the rows index[i], i = from .. size - 1, were looked at.
RECURSIVE PivotFrom(_, _, _, _, _, _, _, _)
PivotFrom(matrix, index, c, j, from, pi1, k, int_abs) ==
    IF from >= IdaM THEN k
    ELSE LET pi0 == FDiv(AbsOf(matrix[index[from]][j], int_abs),
                         c[index[from]])
         IN  IF FGreater(pi0, pi1)
             THEN PivotFrom(matrix, index, c, j, from + 1, pi0, from, int_abs)
             ELSE PivotFrom(matrix, index, c, j, from + 1, pi1, k, int_abs)

\* One round j of the elimination of PartialPivotGaussElim on
\* st = [matrix, index, k].
EliminateColumn(st, c, j, int_abs) ==
    LET k == PivotFrom(st.matrix, st.index, c, j, j, Zero, st.k, int_abs)
        index == [st.index EXCEPT ![j] = st.index[k], ![k] = st.index[j]]
        below == {index[i] : i \in (j + 1) .. (IdaM - 1)}
        pivot_row == st.matrix[index[j]]
        matrix == [row \in 0 .. (IdaM - 1) |->
                      IF row \in below
                      THEN LET pj == FDiv(st.matrix[row][j], pivot_row[j])
                           IN  [l \in 0 .. (IdaM - 1) |->
                                   IF l = j THEN pj
                                   ELSE IF l > j
                                   THEN FSub(st.matrix[row][l],
                                             FMul(pj, pivot_row[l]))
                                   ELSE st.matrix[row][l]]
                      ELSE st.matrix[row]]
    IN  [matrix |-> matrix, index |-> index, k |-> k]

RECURSIVE EliminateFrom(_, _, _, _)
EliminateFrom(st, c, j, int_abs) ==
    IF j >= IdaM - 1 THEN st
    ELSE EliminateFrom(EliminateColumn(st, c, j, int_abs), c, j + 1, int_abs)

\* PartialPivotGaussElim(matrix, index): matrix and index after the call.
PartialPivotGaussElim(matrix, int_abs) ==
    EliminateFrom([matrix |-> matrix,
                   index |-> [i \in 0 .. (IdaM - 1) |-> i],
                   k |-> 0],
                  [i \in 0 .. (IdaM - 1) |->
                      LargestAbs(matrix[i], 0, Zero, int_abs)],
                  0, int_abs)

\* The first loop of Invert after PartialPivotGaussElim: b after the rounds
\* i = from .. num_rows - 2.
RECURSIVE ForwardFrom(_, _, _, _)
ForwardFrom(b, matrix, index, from) ==
    IF from >= IdaM - 1 THEN b
    ELSE LET below == {index[j] : j \in (from + 1) .. (IdaM - 1)}
         IN  ForwardFrom(
                 [row \in 0 .. (IdaM - 1) |->
                     IF row \in below
                     THEN [k \in 0 .. (IdaM - 1) |->
                              FSub(b[row][k],
                                   FMul(matrix[row][from],
                                        b[index[from]][k]))]
                     ELSE b[row]],
                 matrix, index, from + 1)

\* x[j][i] of Invert, for the rows below j of column i already in column.
RECURSIVE BackSubtract(_, _, _, _, _)
BackSubtract(acc, matrix_row, column, j, k) ==
    IF k >= IdaM THEN acc
    ELSE BackSubtract(FSub(acc, FMul(matrix_row[k], column[k])),
                      matrix_row, column, j, k + 1)

\* Column i of x in Invert, from row j upwards; column holds the rows
\* below j.
RECURSIVE ColumnFrom(_, _, _, _, _, _)
ColumnFrom(column, b, matrix, index, i, j) ==
    IF j < 0 THEN column
    ELSE ColumnFrom(
             [column EXCEPT ![j] =
                 FDiv(BackSubtract(b[index[j]][i], matrix[index[j]], column,
                                   j, j + 1),
                      matrix[index[j]][j])],
             b, matrix, index, i, j - 1)

\* Invert(matrix): x[j][i] is Invert(matrix)[i][j] here, x being built
\* column by column.
Invert(matrix, int_abs) ==
    LET lu == PartialPivotGaussElim(matrix, int_abs)
        b == ForwardFrom([i \in 0 .. (IdaM - 1) |->
                             [k \in 0 .. (IdaM - 1) |->
                                 IF i = k THEN FromInt(1) ELSE Zero]],
                         lu.matrix, lu.index, 0)
    IN  [i \in 0 .. (IdaM - 1) |->
            ColumnFrom([j \in 0 .. (IdaM - 1) |-> Zero], b, lu.matrix,
                       lu.index, i, IdaM - 1)]

\* IDA::Decode(encoded, fid): rows are the rows of encoded, fid their
\* indices, both from 1.
Decode(encoded, fid, int_abs) ==
    LET x == Invert([i \in 0 .. (IdaM - 1) |->
                        [j \in 0 .. (IdaM - 1) |-> Pow(fid[i + 1], j)]],
                    int_abs)
        num_rows == Len(encoded) * Len(encoded[1])
    IN  [i \in 1 .. num_rows |->
            FRound(SumFrom(Zero,
                           [k \in 1 .. IdaM |->
                               FMul(x[k - 1][(i - 1) % IdaM],
                                    encoded[k][((i - 1) \div IdaM) + 1])],
                           0))]

\* FragsFromMatrix(matrix): fragment i holds row i - 1 and the index i.
FragsFromMatrix(matrix) ==
    [i \in 1 .. IdaN |->
        [index_ |-> i,
         fragment_ |-> [j \in 1 .. (IdaLength \div IdaM) |->
                           matrix[i - 1][j - 1]]]]

\* DataBlock(input, sanity_check): original_ is the codes of the characters
\* of input, padded with 0.
OriginalOf(input) ==
    [i \in 1 .. IdaLength |->
        IF i <= Len(input) THEN FromInt(input[i]) ELSE Zero]

\* DataBlock(input, sanity_check).fragments_.
FragmentsOf(input) == FragsFromMatrix(Encode(OriginalOf(input)))

\* DataBlock(fragments).original_ for a vector of fragments.
OriginalFrom(fragments, int_abs) ==
    Decode([k \in 1 .. Len(fragments) |-> fragments[k].fragment_],
           [k \in 1 .. Len(fragments) |-> fragments[k].index_], int_abs)

\* DataBlock::Decode(): the codes of original_ before the first 0.
RECURSIVE DecodeFrom(_, _)
DecodeFrom(original_, i) ==
    IF i > Len(original_) \/ original_[i] = Zero THEN <<>>
    ELSE <<original_[i]>> \o DecodeFrom(original_, i + 1)

(***************************************************************************)
(* DataBlock on its own: a string is drawn at the start, encoded, and      *)
(* decoded from m_ of its fragments.                                       *)
(***************************************************************************)

\* The characters of the strings: 'a' and 'z'.
IdaChars == {97, 122}

\* The strings encoded.
IdaInputs == UNION {[1 .. n -> IdaChars] : n \in 0 .. IdaLength}

\* The fragments of a set of indices, by ascending index.
RECURSIVE Picked(_, _)
Picked(fragments, indices) ==
    IF indices = {} THEN <<>>
    ELSE LET least == CHOOSE i \in indices : \A j \in indices : i <= j
         IN  <<fragments[least]>> \o Picked(fragments, indices \ {least})

IdaInit ==
    /\ peers = [p \in Peers |-> NewPeer(p)]
    /\ started = {}
    /\ left = {}
    /\ result = NoCall
    /\ history = NoHistory
    /\ sleeps = [asleep |-> FALSE, naps |-> 0, rounds |-> 0]
    /\ \E input \in IdaInputs, int_abs \in BOOLEAN :
          inputs = [op |-> "none", input |-> input, int_abs |-> int_abs,
                    indices |-> {}, original_ |-> <<>>, out |-> <<>>]

\* DataBlock(fragments) for m_ fragments of DataBlock(input).
IdaFromFragments ==
    /\ inputs.op = "none"
    /\ \E indices \in SUBSET (1 .. IdaN) :
          /\ Cardinality(indices) = IdaM
          /\ inputs' = [inputs EXCEPT
                 !.op = "DataBlock",
                 !.indices = indices,
                 !.original_ =
                     OriginalFrom(Picked(FragmentsOf(inputs.input), indices),
                                  inputs.int_abs)]
    /\ UNCHANGED <<peers, started, left, result, history, sleeps>>

\* Decode() of the block built from the fragments.
IdaDecode ==
    /\ inputs.op = "DataBlock"
    /\ inputs' = [inputs EXCEPT !.op = "Decode",
                                 !.out = DecodeFrom(inputs.original_, 1)]
    /\ UNCHANGED <<peers, started, left, result, history, sleeps>>

IdaNext == IdaFromFragments \/ IdaDecode

IdaSpec == IdaInit /\ [][IdaNext]_vars

(***************************************************************************)
(* Properties of DataBlock.                                                *)
(***************************************************************************)

\* C17: decoding any m_ fragments of the block of a string gives the padded
\* vector of the string, and Decode() gives the string.
C17_RoundTrip ==
    inputs.op = "Decode" =>
        /\ inputs.original_ = OriginalOf(inputs.input)
        /\ inputs.out = [i \in 1 .. Len(inputs.input) |->
                            FromInt(inputs.input[i])]

(***************************************************************************)
(* Database on its own: the database of one peer starts empty and its      *)
(* member functions are called one after the other.                        *)
(***************************************************************************)

\* The peer whose database is called.
DbPeer == 1

\* The fragments stored: two fragments of one block.
DbFragments == {FragmentOf("val", 1), FragmentOf("val", 2)}

\* data_ and index_ of the database.
DbState == [data_ |-> peers[DbPeer].data_, index_ |-> peers[DbPeer].index_]

DbInit ==
    /\ peers = [p \in Peers |-> NewPeer(p)]
    /\ started = {}
    /\ left = {}
    /\ result = NoCall
    /\ history = NoHistory
    /\ sleeps = [asleep |-> FALSE, naps |-> 0, rounds |-> 0]
    /\ inputs = [op |-> "none", key |-> 0, frag |-> FragmentOf("val", 1),
                 threw |-> FALSE, out |-> FALSE, before |-> DbState]

\* The record of a call of a member function that changes the database and
\* returned or threw r.
DbCalled(r, op, key, frag) ==
    [op |-> op, key |-> key, frag |-> frag, threw |-> ~ r.ok, out |-> FALSE,
     before |-> DbState]

\* db.Insert({key, frag}).
DbInsert ==
    /\ \E key \in TestKeys, frag \in DbFragments :
          /\ peers' = DatabaseInsert(peers, DbPeer, key, frag).w
          /\ inputs' = DbCalled(DatabaseInsert(peers, DbPeer, key, frag),
                                "Insert", key, frag)
    /\ UNCHANGED <<started, left, result, history, sleeps>>

\* db.Update({key, frag}).
DbUpdate ==
    /\ \E key \in TestKeys, frag \in DbFragments :
          /\ peers' = DatabaseUpdate(peers, DbPeer, key, frag).w
          /\ inputs' = DbCalled(DatabaseUpdate(peers, DbPeer, key, frag),
                                "Update", key, frag)
    /\ UNCHANGED <<started, left, result, history, sleeps>>

\* db.Delete(key).
DbDelete ==
    /\ \E key \in TestKeys :
          /\ peers' = DatabaseDelete(peers, DbPeer, key).w
          /\ inputs' = DbCalled(DatabaseDelete(peers, DbPeer, key),
                                "Delete", key, inputs.frag)
    /\ UNCHANGED <<started, left, result, history, sleeps>>

\* db.Lookup(key): out is the fragment returned.
DbLookup ==
    \E key \in TestKeys :
        /\ inputs' = [op |-> "Lookup", key |-> key, frag |-> inputs.frag,
                      threw |-> ~ DatabaseLookup(peers, DbPeer, key).ok,
                      out |-> DatabaseLookup(peers, DbPeer, key).val,
                      before |-> DbState]
        /\ UNCHANGED <<peers, started, left, result, history, sleeps>>

\* db.Contains(key): out is the value returned.
DbContains ==
    \E key \in TestKeys :
        /\ inputs' = [op |-> "Contains", key |-> key, frag |-> inputs.frag,
                      threw |-> FALSE, out |-> Contains(peers, DbPeer, key),
                      before |-> DbState]
        /\ UNCHANGED <<peers, started, left, result, history, sleeps>>

DbNext ==
    \/ DbInsert
    \/ DbUpdate
    \/ DbDelete
    \/ DbLookup
    \/ DbContains

DbSpec == DbInit /\ [][DbNext]_vars

(***************************************************************************)
(* Properties of Database.                                                 *)
(***************************************************************************)

\* C18: the keys of the map are the keys of the index; after a Delete(k)
\* that returned, Contains(k) is false, Lookup(k) fails and a second
\* Delete(k) fails.
C18_IndexMatchesMap ==
    /\ DOMAIN peers[DbPeer].data_ = peers[DbPeer].index_
    /\ (inputs.op = "Delete" /\ ~ inputs.threw) =>
          /\ ~ Contains(peers, DbPeer, inputs.key)
          /\ ~ DatabaseLookup(peers, DbPeer, inputs.key).ok
          /\ ~ DatabaseDelete(peers, DbPeer, inputs.key).ok

\* C19: an Insert of a key that has a stored fragment throws, an Update of
\* a key that has none throws, and a call that threw left the map and the
\* index as they were: the stored fragment is the one of the first Insert.
C19_FailedCallsChangeNothing ==
    /\ (inputs.op = "Insert" /\ inputs.key \in DOMAIN inputs.before.data_)
          => (inputs.threw /\ DbState = inputs.before)
    /\ (inputs.op = "Update" /\ inputs.key \notin DOMAIN inputs.before.data_)
          => (inputs.threw /\ DbState = inputs.before)
    /\ (inputs.op \in {"Insert", "Update"} /\ inputs.threw)
          => DbState = inputs.before

\* An Insert of another fragment for a key that has a stored fragment threw.
C19_Witness ==
    /\ inputs.op = "Insert"
    /\ inputs.key \in DOMAIN inputs.before.data_
    /\ inputs.before.data_[inputs.key] # inputs.frag
    /\ inputs.threw
    /\ peers[DbPeer].data_[inputs.key] = inputs.before.data_[inputs.key]

-----------------------------------------------------------------------------
\* Peer lifecycle after Leave.

\* Peer p called Leave and its server was killed: the acceptor is closed
\* (Peer::Kill at the end of Peer::Leave).
Dead(p) == p \in left /\ ~ peers[p].listening

\* C20: every operation on a peer that reached Dead is rejected: a Create or
\* a Read called on a peer whose Leave ended with Kill does not succeed and
\* returns no data.
C20_DeadPeerRejects ==
    (result.op \in {"Create", "Read"} /\ Dead(result.p)) => ~ result.ok

(***************************************************************************)
(* Session (server.h) on its own, serving the RequestClass of              *)
(* server_test.cc: commands ADD_1 and SUB_1 on an instance with n_ = 1.    *)
(* A Json::Value is a record of its type and its int or string value; a    *)
(* member an object does not have is JsonAbsent.  A call returns           *)
(* [threw, what, val].                                                     *)
(***************************************************************************)

JsonAbsent == [type |-> "absent", int |-> 0, str |-> ""]
JsonNull == [type |-> "null", int |-> 0, str |-> ""]
JsonInt(n) == [type |-> "int", int |-> n, str |-> ""]
JsonBool(b) == [type |-> "bool", int |-> IF b THEN 1 ELSE 0, str |-> ""]
JsonString(s) == [type |-> "string", int |-> 0, str |-> s]
JsonArray == [type |-> "array", int |-> 0, str |-> ""]

Returned(val) == [threw |-> FALSE, what |-> "", val |-> val]
Raised(what) == [threw |-> TRUE, what |-> what, val |-> JsonNull]

\* The decimal digits of the ints of the requests.
IntToString == [n \in -1 .. 2 |-> CASE n = -1 -> "-1" [] n = 0 -> "0"
                                    [] n = 1 -> "1" [] OTHER -> "2"]

\* Json::Value::asString().
asString(v) ==
    CASE v.type \in {"absent", "null"} -> Returned("")
      [] v.type = "string" -> Returned(v.str)
      [] v.type = "bool" -> Returned(IF v.int = 1 THEN "true" ELSE "false")
      [] v.type = "int" -> Returned(IntToString[v.int])
      [] OTHER -> Raised("Type is not convertible to string")

\* Json::Value::asInt().
asInt(v) ==
    CASE v.type \in {"absent", "null"} -> Returned(0)
      [] v.type \in {"int", "bool"} -> Returned(v.int)
      [] OTHER -> Raised("Value is not convertible to Int.")

\* request.get("VALUE", NULL) != NULL: the default of get is Json::Value(0).
HasNonZeroValue(request) ==
    (IF request.VALUE = JsonAbsent THEN JsonInt(0) ELSE request.VALUE)
        # JsonInt(0)

\* The response of a handler that set VALUE.
ValueResponse(converted, n) ==
    IF converted.threw THEN converted
    ELSE Returned([VALUE |-> JsonInt(converted.val + n),
                   SUCCESS |-> JsonAbsent, ERRORS |-> JsonAbsent])

\* RequestClass::add_n(request) and RequestClass::sub_n(request).
add_n(n_, request) ==
    IF HasNonZeroValue(request) THEN ValueResponse(asInt(request.VALUE), n_)
    ELSE Raised("Invalid value.")
sub_n(n_, request) ==
    IF HasNonZeroValue(request) THEN ValueResponse(asInt(request.VALUE), - n_)
    ELSE Raised("Invalid value.")

\* commands_ of the server of RequestTest.
commands_ == {"ADD_1", "SUB_1"}

\* handler(*request_class_inst_, request) for the handler of command.
CallHandler(command, n_, request) ==
    IF command = "ADD_1" THEN add_n(n_, request) ELSE sub_n(n_, request)

ProcessCommandUnchecked(command, n_, request) ==
    IF command.threw THEN command
    ELSE CallHandler(command.val, n_, request)

\* Session::ProcessRequest(request) once the command was read.
ProcessCommand(command, n_, request) ==
    IF command.threw THEN command
    ELSE IF command.val \notin commands_ THEN Raised("Invalid command.")
    ELSE CallHandler(command.val, n_, request)

\* Session::ProcessRequest(request).
ProcessRequest(n_, request) ==
    ProcessCommand(asString(request.COMMAND), n_, request)

\* The handler Session::ProcessRequest(request) calls, "" when it calls none.
HandlerCalled(request) ==
    IF asString(request.COMMAND).threw
       \/ asString(request.COMMAND).val \notin commands_
    THEN ""
    ELSE asString(request.COMMAND).val

\* json_resp of Session::DoWrite after ProcessRequest returned or threw.
ResponseTo(processed) ==
    IF processed.threw
    THEN [VALUE |-> JsonAbsent, SUCCESS |-> JsonBool(FALSE),
          ERRORS |-> JsonString(processed.what)]
    ELSE [processed.val EXCEPT !.SUCCESS = JsonBool(TRUE)]

\* Session::DoWrite(length): json_resp for the text read from the socket,
\* which the reader parses into request or fails to parse.
DoWrite(n_, parsed, request) ==
    IF parsed THEN ResponseTo(ProcessRequest(n_, request))
    ELSE [VALUE |-> JsonAbsent, SUCCESS |-> JsonBool(FALSE),
          ERRORS |-> JsonString("parse_err")]

\* The requests sent to the server: COMMAND and VALUE are absent or hold a
\* value of one of the JSON types.
SessionCommands ==
    {JsonAbsent, JsonNull, JsonString("ADD_1"), JsonString("SUB_1"),
     JsonString("INVALID_COMMAND"), JsonInt(1), JsonBool(TRUE), JsonArray}
SessionValues ==
    {JsonAbsent, JsonNull, JsonInt(-1), JsonInt(0), JsonInt(1),
     JsonString("INVALID_VALUE"), JsonArray}

\* A session answers at most MaxRequests requests.
MaxRequests == 2

SessionInit ==
    /\ peers = [p \in Peers |-> NewPeer(p)]
    /\ started = {}
    /\ left = {}
    /\ result = NoCall
    /\ history = NoHistory
    /\ sleeps = [asleep |-> FALSE, naps |-> 0, rounds |-> 0]
    /\ inputs = [op |-> "none", n_ |-> 1, parsed |-> TRUE,
                 request |-> [COMMAND |-> JsonAbsent, VALUE |-> JsonAbsent],
                 handler |-> "",
                 response |-> [VALUE |-> JsonAbsent, SUCCESS |-> JsonAbsent,
                               ERRORS |-> JsonAbsent],
                 calls |-> 0]

\* The session reads a request and writes its response.
SessionDoWrite ==
    /\ inputs.calls < MaxRequests
    /\ \E parsed \in BOOLEAN, command \in SessionCommands,
          value \in SessionValues :
          inputs' =
              [inputs EXCEPT
                  !.op = "DoWrite",
                  !.parsed = parsed,
                  !.request = [COMMAND |-> command, VALUE |-> value],
                  !.handler =
                      IF parsed
                      THEN HandlerCalled([COMMAND |-> command,
                                          VALUE |-> value])
                      ELSE "",
                  !.response = DoWrite(inputs.n_, parsed,
                                       [COMMAND |-> command,
                                        VALUE |-> value]),
                  !.calls = @ + 1]
    /\ UNCHANGED <<peers, started, left, result, history, sleeps>>

SessionNext == SessionDoWrite

SessionSpec == SessionInit /\ [][SessionNext]_vars

(***************************************************************************)
(* Properties of Session.                                                  *)
(***************************************************************************)

\* The request that was answered names a command of commands_, or one that
\* is not registered.
CommandRegistered ==
    inputs.request.COMMAND.type = "string"
        /\ inputs.request.COMMAND.str \in commands_
CommandUnregistered == inputs.parsed /\ ~ CommandRegistered

\* What the handler of the command does with the request.
HandlerOutcome ==
    CallHandler(inputs.request.COMMAND.str, inputs.n_, inputs.request)

\* The response carries SUCCESS; a handler that raised gives SUCCESS = false
\* and its text in ERRORS, and one that returned gives SUCCESS = true.
HandlerAnswered ==
    /\ inputs.response.SUCCESS.type = "bool"
    /\ (inputs.parsed /\ CommandRegistered /\ HandlerOutcome.threw) =>
          /\ inputs.response.SUCCESS = JsonBool(FALSE)
          /\ inputs.response.ERRORS = JsonString(HandlerOutcome.what)
    /\ (inputs.parsed /\ CommandRegistered /\ ~ HandlerOutcome.threw) =>
          /\ inputs.response.SUCCESS = JsonBool(TRUE)
          /\ inputs.response.VALUE = HandlerOutcome.val.VALUE

\* C21 as stated: every response carries SUCCESS; a request whose COMMAND
\* is not registered gets SUCCESS = false and ERRORS = "Invalid command."
\* and no handler is called; a handler that raises gets SUCCESS = false and
\* its text in ERRORS; a handler that returns gets SUCCESS = true.
C21_ResponseCarriesSuccess ==
    inputs.op = "DoWrite" =>
        /\ HandlerAnswered
        /\ CommandUnregistered =>
              /\ inputs.handler = ""
              /\ inputs.response.SUCCESS = JsonBool(FALSE)
              /\ inputs.response.ERRORS = JsonString("Invalid command.")

\* C21 amended: as above, but a COMMAND that is an array (or an object) is
\* answered with the text of the failed conversion to a string, and every
\* other unregistered COMMAND with "Invalid command."
C21_ResponseCarriesSuccessOrConversionError ==
    inputs.op = "DoWrite" =>
        /\ HandlerAnswered
        /\ CommandUnregistered =>
              /\ inputs.handler = ""
              /\ inputs.response.SUCCESS = JsonBool(FALSE)
              /\ inputs.response.ERRORS =
                    IF inputs.request.COMMAND.type = "array"
                    THEN JsonString("Type is not convertible to string")
                    ELSE JsonString("Invalid command.")

\* Requests answered: one with an unregistered command, one whose handler
\* raised, one whose handler returned, and one whose COMMAND is an array.
C21_Witness ==
    /\ inputs.op = "DoWrite"
    /\ inputs.parsed
    /\ inputs.request.COMMAND = JsonArray
    /\ inputs.response.SUCCESS = JsonBool(FALSE)
    /\ inputs.response.ERRORS.str = "Type is not convertible to string"

(***************************************************************************)
(* The maintenance thread beside the server thread.  A round of            *)
(* RunGeneralMaintenance on a peer takes time: between its begin and its   *)
(* end the server thread of the peer runs the handlers of the requests     *)
(* that callers on other peers send.  No member of Peer is a mutex and no  *)
(* function of peer.cpp locks one, so nothing orders the two threads.      *)
(***************************************************************************)

\* The maintenance threads run at most MaxThreadRounds rounds.
MaxThreadRounds == 1

\* The members of p a handler and the maintenance thread both write.
SharedState(w, p) ==
    [predecessor_ |-> w[p].predecessor_, min_key_ |-> w[p].min_key_,
     successors_ |-> w[p].successors_, finger_table_ |-> w[p].finger_table_,
     data_ |-> w[p].data_]

ThreadInit ==
    /\ peers = [p \in Peers |-> NewPeer(p)]
    /\ started = {}
    /\ left = {}
    /\ result = NoCall
    /\ history = NoHistory
    /\ sleeps = [asleep |-> FALSE, naps |-> 0, rounds |-> 0]
    /\ inputs = [op |-> "none", round |-> 0,
                 before |-> SharedState([p \in Peers |-> NewPeer(p)], 1)]

\* The maintenance thread of a peer leaves the loop that waits for a
\* successor and begins Stabilize.
BeginRound ==
    /\ inputs.round = 0
    /\ sleeps.rounds < MaxThreadRounds
    /\ \E p \in Peers :
          /\ Runnable(p)
          /\ peers' = [peers EXCEPT ![p].maintenance_thread_ = FALSE]
          /\ inputs' = [op |-> "BeginRound", round |-> p,
                        before |-> SharedState(peers, p)]
    /\ sleeps' = [sleeps EXCEPT !.rounds = @ + 1]
    /\ UNCHANGED <<started, left, result, history>>

\* The round ends.  When a handler wrote the members the round reads and
\* writes while the round went on, the two threads raced: the round ends as
\* if it had run after the handler, or (torn) in a way the language does not
\* define.
EndRound ==
    /\ inputs.round # 0
    /\ \E torn \in BOOLEAN :
          peers' =
              IF torn /\ SharedState(peers, inputs.round) # inputs.before
              THEN Undefined(peers, inputs.round).w
              ELSE ThreadAfter(RunGeneralMaintenance(peers, inputs.round),
                               inputs.round)
    /\ inputs' = [inputs EXCEPT !.op = "EndRound", !.round = 0]
    /\ UNCHANGED <<started, left, result, history, sleeps>>

ThreadNext ==
    \/ DoStartChord
    \/ DoJoin
    \/ DoCreate
    \/ Return
    \/ BeginRound
    \/ EndRound

ThreadSpec == ThreadInit /\ [][ThreadNext]_vars

\* C22: no handler writes the predecessor, min_key, successor list, finger
\* table or local store of a peer while the maintenance task of that peer
\* is in the middle of a round that reads and writes them.
C22_MutualExclusion ==
    inputs.round # 0 => SharedState(peers, inputs.round) = inputs.before

(***************************************************************************)
(* The handlers of a peer on their own: a ring is built as in the tests,   *)
(* then a client sends one request to the server of a peer.                *)
(***************************************************************************)

\* The ring sizes at which the request is sent, the peers it is sent to and
\* the peers a request names as NEW_PEER.
RequestSizes == {1, 2, 3, NumPeers}
RequestTargets == {1, 2, NumPeers}
RequestPeers == {1, 2, 3, 4, NumPeers}

\* The requests a client sends to q in world w.
CreateFragRequests(q) ==
    {[COMMAND |-> "CREATE_FRAG", KEY |-> key,
      FRAGMENT |-> FragmentOf("val", 2), SENDER_ID |-> PeerId(NumPeers),
      RECIPIENT_ID |-> recipient] :
        key \in TestKeys, recipient \in {PeerId(q), KeyPlus(PeerId(q), 1)}}
NotifyRequests(w, q) ==
    {[COMMAND |-> "NOTIFY", RECIP_ID |-> PeerId(q),
      NEW_PEER |-> SelfRepr(w, p)] : p \in RequestPeers}
JoinRequests(w) ==
    {[COMMAND |-> "JOIN", NEW_PEER |-> SelfRepr(w, p)] : p \in RequestPeers}

\* The GET_SUCC requests PopulateFingerTable(false) of a started peer s sends
\* to q: for entry i of its table, the lower bound of the entry, sent to the
\* successor of entry i - 1.
FingerRequests(w, q) ==
    {Stamped(x[1], GetSuccReq(GetNthRange(PeerId(x[1]), x[2])[1]),
             w[x[1]].finger_table_[x[2]].successor_) :
        x \in {y \in ((started \ left) \ {q}) \X (1 .. (num_entries_ - 1)) :
                  /\ Len(w[y[1]].finger_table_) = num_entries_
                  /\ w[y[1]].finger_table_[y[2]].successor_.addr = q}}

\* The SYNCHRONIZE requests RunLocalMaintenance of a started peer s sends to
\* q: the keys of its own range, sent to each peer of successors_.
SynchronizeRequests(w, q) ==
    {Stamped(x[1],
             [COMMAND |-> "SYNCHRONIZE",
              KEYS |-> InKeyOrder(ReadRange(w, x[1], w[x[1]].min_key_,
                                            PeerId(x[1])))],
             w[x[1]].successors_[x[2]]) :
        x \in {y \in ((started \ left) \ {q}) \X (1 .. NUM_REPLICAS) :
                  /\ y[2] <= Len(w[y[1]].successors_)
                  /\ w[y[1]].successors_[y[2]].addr = q}}

RequestInit ==
    /\ peers = [p \in Peers |-> NewPeer(p)]
    /\ started = {}
    /\ left = {}
    /\ result = NoCall
    /\ history = NoHistory
    /\ sleeps = [asleep |-> FALSE, naps |-> 0, rounds |-> 0]
    /\ inputs = [op |-> "none", q |-> 0, request |-> [COMMAND |-> ""],
                 before |-> [p \in Peers |-> NewPeer(p)],
                 threw |-> FALSE, response |-> Failure(peers).val]

\* The ring is built while no request was sent.
RequestStartChord == inputs.op = "none" /\ DoStartChord
RequestJoin == inputs.op = "none" /\ DoJoin
RequestCreate == inputs.op = "none" /\ DoCreate
RequestReturn == inputs.op = "none" /\ Return

\* client.MakeRequest(ip, port, request) returned r or threw.
RequestReturns(r, q, request) ==
    /\ peers' = r.w
    /\ inputs' = [op |-> "Request", q |-> q, request |-> request,
                  before |-> peers, threw |-> ~ r.ok,
                  response |-> IF r.ok THEN r.val ELSE Failure(peers).val]

\* A client sends a request to the server of q.
SendRequest ==
    /\ inputs.op = "none"
    /\ Idle
    /\ Cardinality(started) \in RequestSizes
    /\ \E q \in RequestTargets \cap Running :
          \E request \in CreateFragRequests(q) \cup NotifyRequests(peers, q)
                             \cup JoinRequests(peers)
                             \cup FingerRequests(peers, q)
                             \cup SynchronizeRequests(peers, q) :
              RequestReturns(ClientMakeRequest(peers, q, request, {}), q,
                             request)
    /\ UNCHANGED <<started, left, result, history, sleeps>>

RequestNext ==
    \/ RequestStartChord
    \/ RequestJoin
    \/ RequestCreate
    \/ RequestReturn
    \/ SendRequest

RequestSpec == RequestInit /\ [][RequestNext]_vars

(***************************************************************************)
(* Properties of the handlers.                                             *)
(***************************************************************************)

\* The local store of the peer that got the request, before and after.
StoreBefore == [data_ |-> inputs.before[inputs.q].data_,
                index_ |-> inputs.before[inputs.q].index_]
StoreAfter == [data_ |-> peers[inputs.q].data_,
               index_ |-> peers[inputs.q].index_]

\* C23: a CREATE_FRAG request whose RECIPIENT_ID is not the id of the peer is
\* answered SUCCESS = false and leaves the store as it was; so is a request
\* for a key the store holds; any other request inserts the fragment under
\* the key.
C23_RecipientValidated ==
    (inputs.op = "Request" /\ inputs.request.COMMAND = "CREATE_FRAG") =>
        IF \/ inputs.request.RECIPIENT_ID # PeerId(inputs.q)
           \/ inputs.request.KEY \in DOMAIN StoreBefore.data_
        THEN ~ inputs.response.SUCCESS /\ StoreAfter = StoreBefore
        ELSE /\ inputs.response.SUCCESS
             /\ inputs.request.KEY \in DOMAIN StoreAfter.data_
             /\ StoreAfter.data_[inputs.request.KEY] = inputs.request.FRAGMENT

-----------------------------------------------------------------------------
\* Owning ranges.

\* C24: a peer that knows a predecessor has min_key = predecessor.id + 1, in
\* every state Join, NotifyHandler and LeaveHandler lead to.
C24_OwningRange ==
    \A p \in Peers :
        HasValue(peers[p].predecessor_) =>
            peers[p].min_key_ = KeyPlus(peers[p].predecessor_[1].id_, 1)

\* The live peers whose owning range [min_key, id] holds key k: those for
\* which GetSuccessor(k) answers with the peer itself.
Owners(k) ==
    {p \in started \ left : InBetween(k, peers[p].min_key_, PeerId(p), TRUE)}

\* C25: after StartChord, Joins and Leaves the owning ranges of the live
\* peers are pairwise disjoint and cover the ring: every key has exactly one
\* owner.
C25_OwnershipPartition ==
    started # {} =>
        \A k \in 0 .. (keys_in_ring - 1) : Cardinality(Owners(k)) = 1

-----------------------------------------------------------------------------
\* Joining.

\* The peer a NOTIFY request was sent to, before and after the request, and
\* the peer the request names.
NotifiedBefore == inputs.before[inputs.q]
NotifiedAfter == peers[inputs.q]
NotifyingPeer == inputs.request.NEW_PEER
NotifySent == inputs.op = "Request" /\ inputs.request.COMMAND = "NOTIFY"

\* The request names a peer that becomes the predecessor.
PeerIsPred ==
    \/ ~ HasValue(NotifiedBefore.predecessor_)
    \/ InBetween(NotifyingPeer.id_, NotifiedBefore.predecessor_[1].id_,
                 PeerId(inputs.q), FALSE)

\* The predecessor of the peer has this id; the successor list of the peer
\* has an entry of this id.
PredecessorIs(peer, id) ==
    HasValue(peer.predecessor_) /\ peer.predecessor_[1].id_ = id
SuccessorListHas(peer, id) ==
    \E i \in 1 .. Len(peer.successors_) : peer.successors_[i].id_ = id

RingJoined == (started \ left) \ {result.p}
CounterClockwiseOfJoiner ==
    CHOOSE q \in RingJoined :
        \A o \in RingJoined :
            (PeerId(result.p) - PeerId(q)) % keys_in_ring
                <= (PeerId(result.p) - PeerId(o)) % keys_in_ring
ClockwiseOfJoiner ==
    CHOOSE q \in RingJoined :
        \A o \in RingJoined :
            (PeerId(q) - PeerId(result.p)) % keys_in_ring
                <= (PeerId(o) - PeerId(result.p)) % keys_in_ring

\* C27: when Join returned, the predecessor of the joiner is the live peer
\* immediately counter-clockwise of its id, its min_key is the id of that
\* peer plus one, the live peer immediately clockwise has the joiner as
\* predecessor, and the joiner is in the successor list of its predecessor.
C27_JoinResult ==
    result.op = "Join" =>
        /\ result.ok
        /\ PredecessorIs(peers[result.p], PeerId(CounterClockwiseOfJoiner))
        /\ peers[result.p].min_key_
               = KeyPlus(PeerId(CounterClockwiseOfJoiner), 1)
        /\ PredecessorIs(peers[ClockwiseOfJoiner], PeerId(result.p))
        /\ SuccessorListHas(peers[CounterClockwiseOfJoiner], PeerId(result.p))

\* The last peer joined between two peers neither of which is the gateway.
C27_Witness ==
    /\ result.op = "Join"
    /\ result.p = NumPeers
    /\ CounterClockwiseOfJoiner # ClockwiseOfJoiner
    /\ 1 \notin {CounterClockwiseOfJoiner, ClockwiseOfJoiner}
    /\ PredecessorIs(peers[ClockwiseOfJoiner], PeerId(result.p))

\* A JOIN request was sent to the server of inputs.q.
JoinSent == inputs.op = "Request" /\ inputs.request.COMMAND = "JOIN"

\* C29: handling a JOIN request changes none of the predecessor, min_key,
\* successor list, finger table, local store and current_client_id of the
\* peer that handles it.
C29_JoinHandlerReadOnly ==
    JoinSent =>
        /\ SharedState(peers, inputs.q) = SharedState(inputs.before, inputs.q)
        /\ peers[inputs.q].index_ = inputs.before[inputs.q].index_
        /\ peers[inputs.q].current_client_id_
               = inputs.before[inputs.q].current_client_id_

\* A peer that holds fragments answered a JOIN request for an id outside
\* its range by asking another peer for the predecessor.
C29_Witness ==
    /\ JoinSent
    /\ inputs.response.SUCCESS
    /\ HasValue(inputs.before[inputs.q].predecessor_)
    /\ ~ StoredLocally(inputs.before, inputs.q, inputs.request.NEW_PEER.id_)
    /\ inputs.before[inputs.q].data_ # <<>>

(***************************************************************************)
(* Lookups: a ring is built as in the tests, the maintenance threads run   *)
(* rounds in the complete ring, and a caller calls GetSuccessor(key) on a  *)
(* peer.                                                                   *)
(***************************************************************************)

\* The rounds of maintenance before the lookup.
MaxLookupRounds == 1

\* The keys that are looked up.
LookupKeys == 0 .. (keys_in_ring - 1)

\* The live peers, and among them the one with the smallest id at or after
\* k clockwise and the one with the largest id before that of p.
Live == started \ left
LiveSuccessorOf(k) ==
    CHOOSE q \in Live :
        \A o \in Live :
            (PeerId(q) - k) % keys_in_ring <= (PeerId(o) - k) % keys_in_ring
LivePredecessorOf(p) ==
    CHOOSE q \in Live :
        \A o \in Live :
            (PeerId(p) - 1 - PeerId(q)) % keys_in_ring
                <= (PeerId(p) - 1 - PeerId(o)) % keys_in_ring

\* Every live peer has the live peer before it as predecessor, and every
\* finger of its table names the live successor of the finger's lower bound.
StableRing ==
    /\ Live # {}
    /\ \A p \in Live :
          /\ PredecessorIs(peers[p], PeerId(LivePredecessorOf(p)))
          /\ peers[p].finger_table_ # <<>>
          /\ \A i \in 1 .. Len(peers[p].finger_table_) :
                peers[p].finger_table_[i].successor_.id_
                    = PeerId(LiveSuccessorOf(
                                 peers[p].finger_table_[i].lower_bound_))

\* The peers a GET_SUCC or GET_PRED request for key passes through once q,
\* serving the peer of id client, has it: q answers when the key is local,
\* and otherwise sends it to the peer ForwardRequest chooses; GetSuccessor
\* sends it to the predecessor when that request fails.  The walk is cut
\* after more hops than there are peers.
ForwardLocal(w, q, key, command) ==
    IF command = "GET_SUCC" THEN InBetween(key, w[q].min_key_, PeerId(q), TRUE)
    ELSE ~ HasValue(w[q].predecessor_) \/ StoredLocally(w, q, key)
ForwardHop(w, q, client, key, command) ==
    LET target == ForwardTarget([w EXCEPT ![q].current_client_id_ = client],
                                q, key).peer.addr
    IN  IF Reachable(w, target, {}) THEN target
        ELSE IF command = "GET_SUCC" /\ HasValue(w[q].predecessor_)
                  /\ Reachable(w, w[q].predecessor_[1].addr, {})
             THEN w[q].predecessor_[1].addr
        ELSE 0
RECURSIVE ForwardChain(_, _, _, _, _, _)
ForwardChain(w, q, client, key, command, visited) ==
    IF Len(visited) > NumPeers \/ ForwardLocal(w, q, key, command)
       \/ ForwardHop(w, q, client, key, command) = 0
    THEN visited
    ELSE ForwardChain(w, ForwardHop(w, q, client, key, command),
                      Some(PeerId(q)), key, command,
                      Append(visited,
                             ForwardHop(w, q, client, key, command)))

LookupInit ==
    /\ peers = [p \in Peers |-> NewPeer(p)]
    /\ started = {}
    /\ left = {}
    /\ result = NoCall
    /\ history = NoHistory
    /\ sleeps = [asleep |-> FALSE, naps |-> 0, rounds |-> 0]
    /\ inputs = [op |-> "none", p |-> 0, key |-> 0, stable |-> FALSE,
                 owner |-> 0, ok |-> FALSE, val |-> NullRepr, chain |-> <<>>]

\* The ring is built while no lookup was made.
LookupStartChord == inputs.op = "none" /\ DoStartChord
LookupJoin == inputs.op = "none" /\ DoJoin
LookupReturn == inputs.op = "none" /\ Return
LookupLeave == inputs.op = "none" /\ DoLeave

\* The maintenance thread of a peer of the complete ring runs a round.
LookupMaintenance ==
    /\ inputs.op = "none"
    /\ Idle
    /\ started = Peers
    /\ sleeps.rounds < MaxLookupRounds
    /\ \E p \in Peers :
          /\ Runnable(p)
          /\ peers' = ThreadAfter(
                          RunGeneralMaintenance(
                              [peers EXCEPT ![p].maintenance_thread_ = FALSE],
                              p), p)
    /\ sleeps' = [sleeps EXCEPT !.rounds = @ + 1]
    /\ UNCHANGED <<started, left, result, history, inputs>>

\* GetSuccessor(key) called on p returned r.val or threw.
GetSuccessorReturns(r, p, key) ==
    /\ peers' = r.w
    /\ inputs' = [op |-> "GetSuccessor", p |-> p, key |-> key,
                  stable |-> StableRing, owner |-> LiveSuccessorOf(key),
                  ok |-> r.ok, val |-> r.val,
                  chain |-> ForwardChain(peers, p,
                                         peers[p].current_client_id_, key,
                                         "GET_SUCC", <<p>>)]

CallGetSuccessor ==
    /\ inputs.op = "none"
    /\ Idle
    /\ \E p \in Running : \E key \in LookupKeys :
          GetSuccessorReturns(GetSuccessor(peers, p, key, {}), p, key)
    /\ UNCHANGED <<started, left, result, history, sleeps>>

\* GetPredecessor(key) called on p returned r.val or threw.
GetPredecessorReturns(r, p, key) ==
    /\ peers' = r.w
    /\ inputs' = [op |-> "GetPredecessor", p |-> p, key |-> key,
                  stable |-> StableRing, owner |-> LiveSuccessorOf(key),
                  ok |-> r.ok, val |-> r.val,
                  chain |-> ForwardChain(peers, p,
                                         peers[p].current_client_id_, key,
                                         "GET_PRED", <<p>>)]

CallGetPredecessor ==
    /\ inputs.op = "none"
    /\ Idle
    /\ \E p \in Running : \E key \in LookupKeys :
          GetPredecessorReturns(GetPredecessor(peers, p, key, {}), p, key)
    /\ UNCHANGED <<started, left, result, history, sleeps>>

LookupNext ==
    \/ LookupStartChord
    \/ LookupJoin
    \/ LookupReturn
    \/ LookupLeave
    \/ LookupMaintenance
    \/ CallGetSuccessor
    \/ CallGetPredecessor

LookupSpec == LookupInit /\ [][LookupNext]_vars

\* C30: in a stable ring GetSuccessor(k) called on any peer returns the
\* live peer with the smallest id at or after k, the one peer whose range
\* holds k.
C30_LookupCorrect ==
    (inputs.op = "GetSuccessor" /\ inputs.stable) =>
        /\ inputs.ok
        /\ inputs.val.id_ = PeerId(inputs.owner)
        /\ InBetween(inputs.key, peers[inputs.owner].min_key_,
                     PeerId(inputs.owner), TRUE)

\* A peer whose id has a leading zero digit looked up a key another peer
\* owns, in a stable ring of more than half the peers.
C30_Witness ==
    /\ inputs.op = "GetSuccessor"
    /\ inputs.stable
    /\ inputs.ok
    /\ inputs.p # inputs.owner
    /\ PeerId(inputs.p) < keys_in_ring \div 16
    /\ 2 * Cardinality(started) > NumPeers

(***************************************************************************)
(* Concurrent joins: a ring is built as in the tests, then two peers whose *)
(* ids lie between the same two adjacent peers call Join at the same time. *)
(* Each Join advances by the requests it makes: the JOIN request and the   *)
(* finger table, the GET_PRED requests, the NOTIFY requests to the         *)
(* predecessors, the GET_SUCC requests, the NOTIFY request to the          *)
(* successor.  When both have returned the maintenance thread runs.        *)
(***************************************************************************)

\* The ring sizes at which the two peers join, the peers that may join,
\* and the rounds of maintenance after the joins.
ConcurrentSizes == {2, 3}
ConcurrentJoiners == 3 .. 7
MaxConcurrentRounds == 8

\* The position of a Join that returned or threw.
JoinDone == 5

\* The ids of a and b lie between the same two adjacent live peers.
SameArc(a, b) == LiveSuccessorOf(PeerId(a)) = LiveSuccessorOf(PeerId(b))

ConcurrentInit ==
    /\ peers = [p \in Peers |-> NewPeer(p)]
    /\ started = {}
    /\ left = {}
    /\ result = NoCall
    /\ history = NoHistory
    /\ sleeps = [asleep |-> FALSE, naps |-> 0, rounds |-> 0]
    /\ inputs = [op |-> "none", joiners |-> {},
                 pc |-> [p \in Peers |-> 0],
                 pred_list |-> [p \in Peers |-> <<>>],
                 ok |-> [p \in Peers |-> TRUE]]

\* The ring is built while no peer joins concurrently.
ConcurrentStartChord == inputs.op = "none" /\ DoStartChord
ConcurrentJoin == inputs.op = "none" /\ DoJoin
ConcurrentReturn == inputs.op = "none" /\ Return

\* Two threads call Join on two peers of the same arc.
BeginJoins ==
    /\ inputs.op = "none"
    /\ Idle
    /\ Cardinality(started) \in ConcurrentSizes
    /\ \E a \in ConcurrentJoiners \ started :
          \E b \in ConcurrentJoiners \ started :
              /\ a # b
              /\ PeerId(a) < PeerId(b)
              /\ SameArc(a, b)
              /\ inputs' = [inputs EXCEPT !.op = "Join", !.joiners = {a, b}]
    /\ UNCHANGED <<peers, started, left, result, history, sleeps>>

\* The part of Peer::Join on j that starts at position pc, in world w.
JoinPhase(w, j, pc, pred_list) ==
    CASE pc = 0 ->
             JoinPopulate(
                 ClientMakeRequest(
                     [w EXCEPT ![j].listening = TRUE], 1,
                     [COMMAND |-> "JOIN",
                      NEW_PEER |-> SelfRepr([w EXCEPT ![j].listening = TRUE],
                                            j)],
                     {}),
                 j)
      [] pc = 1 -> JoinPredecessors(Ret(w, TRUE), j)
      [] pc = 2 -> JoinNotify(Ret(w, pred_list), j)
      [] pc = 3 -> SetSuccessors(ThenGetNSuccessors(Ret(w, TRUE), j), j)
      [] OTHER -> JoinNotifySuccessor(Ret(w, TRUE), j)

\* The part of Join on j that started at position pc ended as r.
JoinPhaseReturns(r, j, pc) ==
    /\ peers' = r.w
    /\ inputs' = [inputs EXCEPT
                     !.pc[j] = IF r.ok THEN pc + 1 ELSE JoinDone,
                     !.ok[j] = r.ok,
                     !.pred_list[j] = IF r.ok /\ pc = 1 THEN r.val ELSE @]
    /\ started' = IF r.ok /\ pc + 1 < JoinDone THEN started
                  ELSE started \cup {j}

\* One of the two Joins makes its next requests.
JoinStep ==
    /\ inputs.op = "Join"
    /\ \E j \in inputs.joiners :
          /\ inputs.pc[j] < JoinDone
          /\ JoinPhaseReturns(JoinPhase(peers, j, inputs.pc[j],
                                        inputs.pred_list[j]),
                              j, inputs.pc[j])
    /\ UNCHANGED <<left, result, history, sleeps>>

\* Both Joins have returned.
JoinsFinished ==
    /\ inputs.op = "Join"
    /\ \A j \in inputs.joiners : inputs.pc[j] = JoinDone

\* The maintenance thread of a peer runs a round after the joins.
ConcurrentMaintenance ==
    /\ JoinsFinished
    /\ sleeps.rounds < MaxConcurrentRounds
    /\ \E p \in Peers :
          /\ Runnable(p)
          /\ peers' = ThreadAfter(
                          RunGeneralMaintenance(
                              [peers EXCEPT ![p].maintenance_thread_ = FALSE],
                              p), p)
    /\ sleeps' = [sleeps EXCEPT !.rounds = @ + 1]
    /\ UNCHANGED <<started, left, result, history, inputs>>

ConcurrentNext ==
    \/ ConcurrentStartChord
    \/ ConcurrentJoin
    \/ ConcurrentReturn
    \/ BeginJoins
    \/ JoinStep
    \/ ConcurrentMaintenance

ConcurrentSpec == ConcurrentInit /\ [][ConcurrentNext]_vars

\* The predecessor of every live peer is the live peer before it.
PredecessorCycle ==
    \A p \in Live : PredecessorIs(peers[p], PeerId(LivePredecessorOf(p)))

\* C28: once two concurrent Joins into the same arc have returned and the
\* maintenance thread has run its rounds, the predecessors of the live
\* peers form one cycle through every live peer in ring order.
C28_ConcurrentJoinsConverge ==
    (JoinsFinished /\ sleeps.rounds = MaxConcurrentRounds) => PredecessorCycle

-----------------------------------------------------------------------------
\* Forwarding.

\* A caller called GetSuccessor or GetPredecessor on a live peer.
LookupCalled ==
    inputs.op \in {"GetSuccessor", "GetPredecessor"} /\ inputs.p \notin left

\* No peer is twice in the chain.
NoPeerTwice(chain) ==
    \A i \in 1 .. Len(chain) :
        \A j \in 1 .. Len(chain) : i # j => chain[i] # chain[j]

\* C31: the chain of GET_SUCC or GET_PRED requests a call of GetSuccessor
\* or GetPredecessor causes ends and passes through no peer twice.
C31_NoForwardingCycle ==
    LookupCalled =>
        Len(inputs.chain) <= NumPeers /\ NoPeerTwice(inputs.chain)

\* A GET_SUCC request was sent to the server of inputs.q for a key outside
\* its range, and the peer ForwardRequest sends it on to.
GetSuccForwarded ==
    /\ inputs.op = "Request"
    /\ inputs.request.COMMAND = "GET_SUCC"
    /\ ~ InBetween(inputs.request.KEY, inputs.before[inputs.q].min_key_,
                   PeerId(inputs.q), TRUE)
ForwardedTo ==
    ForwardTarget(ValidateRequest(inputs.before, inputs.q, inputs.request),
                  inputs.q, inputs.request.KEY).peer

\* C32: ForwardRequest sends the request neither back to the peer whose
\* request is being served nor to the forwarding peer itself.
C32_NeverSentBack ==
    GetSuccForwarded =>
        /\ ForwardedTo.id_ # inputs.request.SENDER_ID
        /\ ForwardedTo.id_ # PeerId(inputs.q)

\* ---------------------------------------------------------------------
\* The client id a handler records (current_client_id_)
\* ---------------------------------------------------------------------

\* The server of inputs.q has handled a request and its handler has returned
\* or thrown: no handler is executing in the state.
RequestHandled ==
    inputs.op = "Request"

\* C33: every handler leaves current_client_id_ absent when it exits, on the
\* success path and on the failure path, so the value is absent whenever no
\* handler is executing.
C33_ClientIdAbsentOutsideHandlers ==
    RequestHandled =>
        \A p \in Peers : peers[p].current_client_id_ = NullOpt

\* ---------------------------------------------------------------------
\* Handlers that wait for each other
\* ---------------------------------------------------------------------

\* The peers whose server thread runs a handler of the chain: every peer of
\* the chain but the caller, whose call runs on a thread of its own.  The
\* handler of each waits for the response of the next (Session::DoWrite runs
\* the handler on the one thread of io_context_.run()).
ServingThreads(chain) == Tail(chain)

\* A handler of the chain sent its request to a peer whose server thread is
\* inside an earlier handler of the chain: the threads from that peer on wait
\* for each other in a circle.
WaitingInCircle(chain) ==
    /\ chain # <<>>
    /\ ~ NoPeerTwice(ServingThreads(chain))

\* C34: no state has the request-serving threads of the peers involved in a
\* request all blocked waiting for the response of another of them.
C34_NoDistributedDeadlock ==
    LookupCalled => ~ WaitingInCircle(inputs.chain)

\* ---------------------------------------------------------------------
\* The successor list Stabilize rebuilds
\* ---------------------------------------------------------------------

\* No peer is twice in the list of peers.
EachPeerOnce(list) ==
    \A i \in 1 .. Len(list) :
        \A j \in 1 .. Len(list) : i # j => list[i].id_ # list[j].id_

\* The maintenance round of peer inputs.round ends in the step, and it ran
\* after the handlers that wrote the peer's members meanwhile.
RoundEnded ==
    /\ inputs.round # 0
    /\ inputs'.round = 0
    /\ ~ peers'[inputs.round].undefined_

\* C35: GetNSuccessors returns each live peer at most once in a ring of fewer
\* than n peers, so the successor list Stabilize rebuilds from
\* GetNSuccessors(id, M) in a maintenance round has no duplicate entry.
C35_StabilizeNoDuplicates ==
    [][RoundEnded => EachPeerOnce(peers'[inputs.round].successors_)]_vars

\* ---------------------------------------------------------------------
\* Where Create places the fragments
\* ---------------------------------------------------------------------

\* The step is the first Create of its key.
FirstCreateCalled ==
    /\ result = NoCall
    /\ result'.op = "Create"
    /\ history[result'.key].creates = 0

\* The peer at position i of succ_list stores fragment i of the key after
\* the step.
PlacedInOrder(succ_list, key) ==
    \A i \in 1 .. Len(succ_list) :
        /\ succ_list[i].addr \in Peers
        /\ key \in peers'[succ_list[i].addr].index_
        /\ peers'[succ_list[i].addr].data_[key].index_ = i

\* What Create did in the step when succ_list are the successors it gathered:
\* with M or more of them one fragment on each, in order, and a boolean
\* returned; with fewer false returned and nothing placed.
PlacedOn(succ_list) ==
    IF Len(succ_list) >= MIN_FRAGMENTS
    THEN /\ result'.ok
         /\ EachPeerOnce(succ_list)
         /\ PlacedInOrder(succ_list, result'.key)
    ELSE /\ result'.ok
         /\ ~ result'.val
         /\ result'.count = 0

\* The successors GetNSuccessors(key, N) gathers for the Create of the step.
Gathered ==
    GetNSuccessors(peers, result'.p, result'.key, NUM_REPLICAS, {})

\* C36: Create places fragment i on the i-th successor gathered for the key,
\* no peer receives two fragments, and Create returns a boolean; with fewer
\* than M successors it returns false and places nothing.
C36_CreatePlacement ==
    [][(FirstCreateCalled /\ Gathered.ok) => PlacedOn(Gathered.val)]_vars

\* ---------------------------------------------------------------------
\* The keys a SYNCHRONIZE request announces
\* ---------------------------------------------------------------------

\* A SYNCHRONIZE request was sent to the server of inputs.q.
SynchronizeSent ==
    inputs.op = "Request" /\ inputs.request.COMMAND = "SYNCHRONIZE"

\* The keys the request announces.
Announced ==
    {inputs.request.KEYS[i] : i \in 1 .. Len(inputs.request.KEYS)}

\* Read(key) called by the handler of inputs.q returns the block.
Readable(key) ==
    Read(inputs.before, inputs.q, key, {inputs.q}).ok

\* C37: for each key a SYNCHRONIZE request announces and the receiving peer
\* does not hold, the peer holds a fragment under the key after the handler
\* when the key is readable; the keys it already holds are left untouched.
C37_SynchronizeRepairs ==
    SynchronizeSent =>
        \A key \in Announced :
            IF key \in inputs.before[inputs.q].index_
            THEN /\ key \in peers[inputs.q].index_
                 /\ peers[inputs.q].data_[key]
                        = inputs.before[inputs.q].data_[key]
            ELSE Readable(key) => key \in peers[inputs.q].index_

\* ---------------------------------------------------------------------
\* The fragments global maintenance moves
\* ---------------------------------------------------------------------

\* The maintenance thread of a peer runs a round in the step.
MaintenanceRound ==
    sleeps'.rounds = sleeps.rounds + 1

\* The peers that hold a fragment of key before the step and none after it,
\* and those that hold none before and one after.
Gave(key) == Holders(peers, key) \ Holders(peers', key)
Took(key) == Holders(peers', key) \ Holders(peers, key)

\* C38: a maintenance round deletes a stored fragment only when a successor
\* has accepted that fragment, so the number of peers that hold a fragment
\* of a key does not decrease in the round.
C38_NoFragmentLost ==
    [][MaintenanceRound =>
          \A key \in TestKeys :
              /\ \A p \in Gave(key) :
                    \E q \in Took(key) :
                        peers'[q].data_[key] = peers[p].data_[key]
              /\ Cardinality(Holders(peers', key))
                     >= Cardinality(Holders(peers, key))]_vars

\* A round deleted the fragment of a key on a peer: the index of the peer
\* still has the key, its store no longer does.
C38_Witness ==
    \E key \in TestKeys :
        \E p \in Peers :
            /\ history[key].rounds > 0
            /\ key \in peers[p].index_
            /\ key \notin DOMAIN peers[p].data_

\* C39: a maintenance round moves a stored key away from a peer only when
\* the peer is not among the N immediate successors of the key; the keys of
\* a peer that is one of them stay in its store.
C39_OnlyMisplacedMoved ==
    [][MaintenanceRound =>
          \A key \in TestKeys :
              \A p \in Gave(key) :
                  p \notin ImmediateSuccessors(key, NUM_REPLICAS)]_vars

\* ---------------------------------------------------------------------
\* The maintenance round that goes around the ring
\* ---------------------------------------------------------------------

\* The maintenance thread of p holds the round and can go on with it: it did
\* not end by an exception and is not in a walk of RunGlobalMaintenance that
\* never returns to the range of p.
HoldsRound(p) ==
    /\ peers[p].maintenance_thread_
    /\ ~ peers[p].terminated_
    /\ ~ peers[p].stuck_

\* C40: a round that was started ends and is passed on to the successor, so
\* as long as the ring has live peers the round is with the maintenance thread
\* of a peer, also after a peer that held it or was its next hop has left
\* (Leave stops the server of the peer, not its maintenance thread).
C40_RoundKeepsCirculating ==
    Live # {} => \E p \in started : HoldsRound(p)

====
